---- MODULE Spec2Model ----
(***************************************************************************)
(* A model of the anzu compiler (src/src/compiler.cpp), its variable       *)
(* manager and the stack machine that runs the emitted bytecode.           *)
(*                                                                         *)
(* The module holds several specifications, one per subsystem; each one    *)
(* moves its own group of variables and leaves the other groups at their   *)
(* idle values.                                                            *)
(*   SpecConv   const_convertable_to / push_copy_typechecked over types    *)
(*   SpecCall   the argument loop of push_expr(node_call_expr)             *)
(*   SpecVars   the variable manager: scopes, declare, find, pop           *)
(*   SpecVM     the frame protocol of call and return                      *)
(*   SpecStmt   declaration, assignment and expression statements          *)
(*   SpecProg   a function compiled statement by statement, then run       *)
(*   SpecFns    function templates, their instantiation and compilation    *)
(*   SpecFor    a for loop over an array compiled, then run                *)
(*   SpecDecl   declarations after an if statement, compiled and run       *)
(*   SpecArr    an array declared, assigned by subscript and read          *)
(*   SpecReg    the type manager: add, contains, size_of, fields_of        *)
(*   SpecRet    the check of a function's end for a return statement       *)
(*   SpecAddr   expressions of every form compiled in address mode         *)
(*   SpecUnder  the byte stack of the VM under pops of more than it holds  *)
(*   SpecExit   return statements under open scopes, compiled and run      *)
(*   SpecWhile  while loops and loops with breaks and continues, run       *)
(*   SpecTypeOf type_of_expr around literals and template instantiations   *)
(*   SpecNest   for statements in the bodies of for statements             *)
(*   SpecElem   the loop variable of a for statement and assignments to it *)
(*   SpecRom    insert_into_rom on the read-only segment                   *)
(***************************************************************************)
EXTENDS Integers, Naturals, Sequences, FiniteSets, TLC

VARIABLES
    src,        \* const_convertable_to: the source type of the copy
    dst,        \* const_convertable_to: the destination type of the copy
    called,     \* which function was applied to (src, dst) last
    verdict,    \* what it answered
    call_kind,  \* push_expr(node_call_expr): the branch taken, or "none"
    param_types,\* info.param_types of the callee
    arg_i,      \* the loop index i over node.args
    args_size,  \* the local args_size
    pushed,     \* bytes the code emitted so far pushes for the call's arguments
    call_op,    \* the call opcode emitted, <<>> before it is
    scopes,     \* variable_manager::d_scopes of the function being compiled
    code,       \* function::code of the function being compiled
    status,     \* "compiling", "error" after a fatal diagnostic, or the function's run state
    last_call,  \* the variable-manager call made by the last step, and its answer
    last_stmt,  \* the statement compiled by the last step, and how it went
    memory,     \* runtime_context::memory, a sequence of bytes (index 0 is memory[1])
    base_ptr,   \* runtime_context::base_ptr
    prog_ptr,   \* runtime_context::prog_ptr
    frames,     \* what each call still open saved, innermost last
    last_op,    \* the op applied by the last step
    d_current_size, \* vm_stack::d_current_size, a 64-bit word, low byte first
    open,       \* the statements being compiled, outermost first
    stmts,      \* the number of statements compiled so far
    boundaries, \* <<position, offset cursor>> at every statement boundary
    loops,      \* the loops compiled: range and patched jumps
    pc,         \* the position of the running function
    stack,      \* the bytes of the running function's frame
    stale,      \* the bytes left above the top of the stack by what was popped
    functions,          \* compiler::functions: name and code of each function, id 0 first
    functions_by_name,  \* compiler::functions_by_name
    current_function,   \* compiler::current_function: the ids being compiled, innermost last
    compiled,           \* how many times compile_function ran the body of each name
    waiting,            \* the uses waiting for the compile_function they started
    last_use,           \* the use of a function name completed by the last step
    d_classes,          \* type_manager::d_classes
    last_add,           \* the last call of the type manager, and its answer
    iterable,           \* the type of the parameter a of the function, << >> without one
    for_info,           \* the for statement compiled: positions and locations
    entered,            \* the element pointers x held each time the for body was entered
    arr_info,           \* the array statements compiled: location, index, value, positions
    fn_body,            \* node_function_stmt::body of the function whose end is compiled
    fn_return,          \* the return type of its signature
    fn_end,             \* what compile_function did after the body
    rom,                \* compiler::rom
    interned,           \* the data and the index of every insert_into_rom so far
    last_insert         \* the last call of insert_into_rom, and its answer

convVars == <<src, dst, called, verdict>>
callVars == <<call_kind, param_types, arg_i, args_size, pushed, call_op>>
compVars == <<scopes, code, status, last_call, last_stmt>>
vmVars == <<memory, base_ptr, prog_ptr, frames, last_op, d_current_size>>
progVars == <<open, stmts, boundaries, loops, pc, stack, stale>>
tmplVars == <<functions, functions_by_name, current_function, compiled, waiting, last_use>>
regVars == <<d_classes, last_add>>
baseVars == <<convVars, callVars, compVars, vmVars, progVars>>
forVars == <<iterable, for_info, entered>>
arrVars == <<arr_info, fn_body, fn_return, fn_end>>
romVars == <<rom, interned, last_insert>>
laterVars == <<tmplVars, regVars, forVars, arrVars, romVars>>
vars == <<baseVars, laterVars>>

(***************************************************************************)
(* Bounds of the model.                                                    *)
(***************************************************************************)
MaxDepth == 2           \* wrappers (ptr / span / array) around a leaf type
MaxParams == 3          \* explicit parameters of a called function
MaxScopes == 3          \* open scopes of the variable manager
MaxFrames == 2          \* calls open at once in the stack machine
MaxData == 3            \* bytes of values on the stack of the stack machine
MaxProg == 2            \* positions of the program the stack machine runs

(***************************************************************************)
(* Type names.  A type_name is a variant plus an is_const flag; array, ptr *)
(* and span hold exactly one inner type, so a type is a spine: a sequence  *)
(* of layers, outermost first, ending in a leaf.                           *)
(***************************************************************************)
PtrSize == 8            \* sizeof(std::byte*)

Layer(kind, name, count, is_const) ==
    [kind |-> kind, name |-> name, count |-> count, is_const |-> is_const]

LeafLayers ==
    { Layer(k[1], k[2], 0, c) :
        k \in { <<"fundamental", "i32">>, <<"fundamental", "nullptr">>,
                <<"struct", "S">>, <<"function_ptr", "f">>,
                <<"bound_method", "S::m">>, <<"arena", "">> },
        c \in BOOLEAN }

WrapperLayers ==
    { Layer("ptr", "", 0, c) : c \in BOOLEAN }
    \cup { Layer("span", "", 0, c) : c \in BOOLEAN }
    \cup { Layer("array", "", n, c) : n \in {1, 2}, c \in BOOLEAN }

with_const(t, c) == <<[t[1] EXCEPT !.is_const = c]>> \o Tail(t)

RECURSIVE TypesOfDepth(_)
TypesOfDepth(d) ==
    IF d = 0 THEN { <<l>> : l \in LeafLayers }
    ELSE LET inner == TypesOfDepth(d - 1)
         IN  inner \cup { <<w>> \o t : w \in WrapperLayers,
                                       t \in { u \in inner : Len(u) = d } }

\* A type used as a value (type_type) wraps the type it names.
TypeValueOf(t) == <<Layer("type", "", 0, FALSE)>> \o t

TypeValues == { with_const(TypeValueOf(t), c) : t \in TypesOfDepth(0), c \in BOOLEAN }

Types == TypesOfDepth(MaxDepth) \cup TypeValues

\* The types a copy of a value of type s is tried against: every type of the
\* same spine as s (any const flags), and every type of at most one wrapper.
SameSpine(s) ==
    { [i \in 1..Len(s) |-> [s[i] EXCEPT !.is_const = f[i]]] :
        f \in [1..Len(s) -> BOOLEAN] }

CopyTargets(s) == SameSpine(s) \cup TypesOfDepth(1) \cup TypeValues

fundamental(name) == <<Layer("fundamental", name, 0, FALSE)>>
i32_type     == fundamental("i32")
u64_type     == fundamental("u64")
bool_type    == fundamental("bool")
null_type    == fundamental("null")
nullptr_type == fundamental("nullptr")
struct_type(name) == <<Layer("struct", name, 0, FALSE)>>

is_ptr(t)        == t[1].kind = "ptr"
is_span(t)       == t[1].kind = "span"
is_array(t)      == t[1].kind = "array"
is_arena(t)      == t[1].kind = "arena"
is_type_value(t) == t[1].kind = "type"

add_const(t)     == with_const(t, TRUE)
remove_const(t)  == with_const(t, FALSE)
add_ptr(t)       == <<Layer("ptr", "", 0, FALSE)>> \o t
add_span(t)      == <<Layer("span", "", 0, FALSE)>> \o t
add_array(t, n)  == <<Layer("array", "", n, FALSE)>> \o t
remove_ptr(t)    == Tail(t)
inner_type(t)    == Tail(t)

(***************************************************************************)
(* const_convertable_to (compiler.cpp 243-269).  The visit dispatches on   *)
(* the pair of variants; every pair the overload set does not name falls   *)
(* to the generic lambda, which answers false.                             *)
(***************************************************************************)
\* const_convertable_to with the const check made at the top level only.
same_shape(s, d) ==
    /\ Len(s) = Len(d)
    /\ \A i \in 1..Len(s) :
        /\ s[i].kind = d[i].kind
        /\ s[i].name = d[i].name
        /\ s[i].count = d[i].count

const_convertable_to_top_only(s, d) ==
    IF s[1].is_const /\ ~d[1].is_const THEN FALSE
    ELSE same_shape(s, d) /\ s[1].kind # "type"

RECURSIVE const_convertable_to(_, _)
const_convertable_to(s, d) ==
    IF s[1].is_const /\ ~d[1].is_const THEN FALSE
    ELSE LET l == s[1]
             r == d[1]
         IN  CASE l.kind = "fundamental" /\ r.kind = "fundamental" -> l.name = r.name
               [] l.kind = "struct" /\ r.kind = "struct" -> l.name = r.name
               [] l.kind = "array" /\ r.kind = "array" ->
                      l.count = r.count /\ const_convertable_to(Tail(s), Tail(d))
               [] l.kind = "ptr" /\ r.kind = "ptr" ->
                      const_convertable_to(Tail(s), Tail(d))
               [] l.kind = "span" /\ r.kind = "span" ->
                      const_convertable_to(Tail(s), Tail(d))
               [] l.kind = "function_ptr" /\ r.kind = "function_ptr" -> l.name = r.name
               [] l.kind = "builtin" /\ r.kind = "builtin" -> l.name = r.name
               [] l.kind = "bound_method" /\ r.kind = "bound_method" -> l.name = r.name
               [] l.kind = "bound_builtin_method" /\ r.kind = "bound_builtin_method" ->
                      l.name = r.name
               [] l.kind = "arena" /\ r.kind = "arena" -> TRUE
               [] OTHER -> FALSE


(***************************************************************************)
(* push_copy_typechecked (compiler.cpp 273-298), given the type the copied *)
(* expression compiled to.  ok: the copy is accepted; extra: the ops       *)
(* emitted after the expression's own.                                     *)
(***************************************************************************)
Op(name, arg) == [op |-> name, arg |-> arg]

\* a copy that accepts nullptr for a span and pushes no length
push_copy_without_length(actual_raw, expected_raw) ==
    LET actual   == remove_const(actual_raw)
        expected == remove_const(expected_raw)
    IN  IF actual = nullptr_type /\ (is_ptr(expected) \/ is_span(expected))
            THEN [ok |-> TRUE, extra |-> <<>>]
        ELSE IF is_arena(actual) \/ is_arena(expected)
            THEN [ok |-> FALSE, extra |-> <<>>]
        ELSE [ok |-> const_convertable_to(actual, expected), extra |-> <<>>]

push_copy_typechecked(actual_raw, expected_raw) ==
    LET actual   == remove_const(actual_raw)
        expected == remove_const(expected_raw)
    IN  IF actual = nullptr_type /\ is_ptr(expected)
            THEN [ok |-> TRUE, extra |-> <<>>]
        ELSE IF actual = nullptr_type /\ is_span(expected)
            THEN [ok |-> TRUE, extra |-> <<Op("push_u64", 0)>>]
        ELSE IF is_arena(actual) \/ is_arena(expected)
            THEN [ok |-> FALSE, extra |-> <<>>]
        ELSE IF ~const_convertable_to(actual, expected)
            THEN [ok |-> FALSE, extra |-> <<>>]
        ELSE [ok |-> TRUE, extra |-> <<>>]

(***************************************************************************)
(* The type registry.  fields_of lists a struct's fields in declaration    *)
(* order; size_of follows the size rules of the type system.               *)
(***************************************************************************)
Field(name, type) == [name |-> name, type |-> type]

fields_of(t) ==
    CASE t[1].name = "S" -> << Field("x", i32_type),
                               Field("arr", add_array(i32_type, 2)),
                               Field("p", add_ptr(i32_type)),
                               Field("b", bool_type) >>
      [] t[1].name = "P" -> << Field("s", struct_type("S")),
                               Field("q", add_ptr(struct_type("S"))) >>
      [] OTHER -> << >>

RECURSIVE SumSizes(_, _)
RECURSIVE size_of(_)
size_of(t) ==
    LET l == t[1]
    IN  CASE l.kind = "fundamental" ->
                (CASE l.name \in {"bool", "char", "null"} -> 1
                   [] l.name = "i32" -> 4
                   [] OTHER -> 8)
          [] l.kind \in {"ptr", "function_ptr", "arena", "bound_method",
                         "bound_builtin_method"} -> PtrSize
          [] l.kind = "span" -> PtrSize + 8
          [] l.kind = "array" -> l.count * size_of(Tail(t))
          [] l.kind = "struct" ->
                (IF fields_of(t) = << >> THEN 1 ELSE SumSizes(fields_of(t), 1))
          [] OTHER -> 0

SumSizes(fields, i) ==
    IF i > Len(fields) THEN 0
    ELSE size_of(fields[i].type) + SumSizes(fields, i + 1)

\* Bytes a sequence of emitted ops leaves on the stack when each pushes.
RECURSIVE BytesPushedBy(_)
BytesPushedBy(ops) ==
    IF ops = << >> THEN 0
    ELSE (IF Head(ops).op = "push_u64" THEN 8 ELSE 0) + BytesPushedBy(Tail(ops))

(***************************************************************************)
(* The variable manager (compilation/variable_manager.hpp).  A scope holds *)
(* its variables in declaration order and the range [start, next) of the   *)
(* frame they occupy; a loop scope also holds the positions of the jumps   *)
(* to patch.                                                               *)
(***************************************************************************)
Variable(name, type, location, size) ==
    [name |-> name, type |-> type, location |-> location, size |-> size]

NoVariable == [found |-> FALSE, var |-> Variable("", null_type, 0, 0), depth |-> 0]

Scope(info, start_location) ==
    [info |-> info, variables |-> << >>, start |-> start_location,
     next |-> start_location, continues |-> << >>, breaks |-> << >>]

scope_size(sc) == sc.next - sc.start

\* The next-offset cursor: where the next declared variable goes.
next_location(scs) == IF scs = << >> THEN 0 ELSE scs[Len(scs)].next

scope_declares(sc, name) == \E i \in 1..Len(sc.variables) : sc.variables[i].name = name

scope_find(sc, name) ==
    LET i == CHOOSE i \in 1..Len(sc.variables) : sc.variables[i].name = name
    IN  sc.variables[i]

\* find: the innermost match, or none.
find(scs, name) ==
    IF \E k \in 1..Len(scs) : scope_declares(scs[k], name)
    THEN LET k == CHOOSE k \in 1..Len(scs) :
                    /\ scope_declares(scs[k], name)
                    /\ \A j \in (k + 1)..Len(scs) : ~scope_declares(scs[j], name)
         IN  [found |-> TRUE, var |-> scope_find(scs[k], name), depth |-> k]
    ELSE NoVariable

\* declare with the check made against the innermost scope only.
declare_innermost_only(scs, name, type, size) ==
    LET top == scs[Len(scs)]
    IN  IF scope_declares(top, name)
        THEN [ok |-> FALSE, scopes |-> scs]
        ELSE [ok |-> TRUE,
              scopes |-> [scs EXCEPT ![Len(scs)] =
                  [top EXCEPT !.variables = Append(@, Variable(name, type, top.next, size)),
                              !.next = @ + size]]]

\* declare: fails if the name exists in any open scope; otherwise the
\* variable takes the current offset and the cursor advances by size.
declare(scs, name, type, size) ==
    LET top == scs[Len(scs)]
    IN  IF find(scs, name).found
        THEN [ok |-> FALSE, scopes |-> scs]
        ELSE [ok |-> TRUE,
              scopes |-> [scs EXCEPT ![Len(scs)] =
                  [top EXCEPT !.variables = Append(@, Variable(name, type, top.next, size)),
                              !.next = @ + size]]]

new_scope(scs)      == Append(scs, Scope("simple", next_location(scs)))
new_loop_scope(scs) == Append(scs, Scope("loop", next_location(scs)))

\* a pop_scope that emits its pop for an empty scope too
pop_scope_always(scs) ==
    [scopes |-> SubSeq(scs, 1, Len(scs) - 1),
     size |-> scope_size(scs[Len(scs)]),
     ops |-> <<Op("pop", scope_size(scs[Len(scs)]))>>]

\* pop_scope: drops the innermost scope and emits the pop of its bytes.
pop_scope(scs) ==
    LET size == scope_size(scs[Len(scs)])
    IN  [scopes |-> SubSeq(scs, 1, Len(scs) - 1),
         size |-> size,
         ops |-> IF size > 0 THEN <<Op("pop", size)>> ELSE << >>]

in_loop(scs) == \E k \in 1..Len(scs) : scs[k].info = "loop"

\* The index of the innermost loop scope.
loop_index(scs) ==
    CHOOSE k \in 1..Len(scs) :
        /\ scs[k].info = "loop"
        /\ \A j \in (k + 1)..Len(scs) : scs[j].info # "loop"

get_loop_info(scs) == scs[loop_index(scs)]

\* a loop exit that pops the bytes of the innermost scope only
handle_loop_exit_innermost(scs) ==
    IF scope_size(scs[Len(scs)]) > 0 THEN <<Op("pop", scope_size(scs[Len(scs)]))>> ELSE << >>

\* handle_loop_exit: the pop of every scope inside the innermost loop
\* scope, the scopes themselves staying open.
handle_loop_exit(scs) ==
    LET size == next_location(scs) - scs[loop_index(scs)].next
    IN  IF size > 0 THEN <<Op("pop", size)>> ELSE << >>

\* declare_var with the failure of declare ignored.
declare_var_unchecked(scs, name, type) ==
    [ok |-> TRUE, scopes |-> declare(scs, name, type, size_of(type)).scopes]

\* declare_var (compiler.cpp 137-142): the size is size_of(type); a failed
\* declare is the fatal diagnostic "name already in use".
declare_var(scs, name, type) == declare(scs, name, type, size_of(type))

(***************************************************************************)
(* SpecConv: the two functions applied to every pair of types.             *)
(***************************************************************************)
ConvIdle == src = i32_type /\ dst = i32_type /\ called = "none" /\ verdict = FALSE

CallIdle ==
    /\ call_kind = "none"
    /\ param_types = << >>
    /\ arg_i = 0
    /\ args_size = 0
    /\ pushed = 0
    /\ call_op = << >>

CompIdle ==
    /\ scopes = << >>
    /\ code = << >>
    /\ status = "compiling"
    /\ last_call = [fn |-> "none", name |-> "", size |-> 0, ok |-> TRUE]
    /\ last_stmt = [kind |-> "none", expr |-> << >>, type |-> << >>, value |-> << >>,
                    ok |-> TRUE]

VmIdle ==
    /\ memory = << >>
    /\ base_ptr = 0
    /\ prog_ptr = 0
    /\ frames = << >>
    /\ last_op = "none"
    /\ d_current_size = <<0, 0, 0, 0, 0, 0, 0, 0>>

ProgIdle ==
    /\ open = << >>
    /\ stmts = 0
    /\ boundaries = {}
    /\ loops = {}
    /\ pc = 0
    /\ stack = << >>
    /\ stale = << >>

\* no function compiled, no use made
NoUse == [kind |-> "none", name |-> "", typed |-> FALSE, id |-> 0]

TmplIdle ==
    /\ functions = << >>
    /\ functions_by_name = [n \in {} |-> 0]
    /\ current_function = << >>
    /\ compiled = [n \in {} |-> 0]
    /\ waiting = << >>
    /\ last_use = NoUse

\* no call of the type manager made
NoAdd ==
    [call |-> "none", name |-> "", fields |-> << >>, ok |-> TRUE, offset |-> 0,
     ops |-> << >>, fatal |-> FALSE]

RegIdle ==
    /\ d_classes = [n \in {} |-> << >>]
    /\ last_add = NoAdd

\* no for statement compiled
NoFor ==
    [header_pos |-> -1, entry_pos |-> -1, end_pos |-> -1, var_location |-> 0,
     iter_location |-> 0, iter_type |-> << >>, clean |-> FALSE]

ForIdle ==
    /\ iterable = << >>
    /\ for_info = NoFor
    /\ entered = << >>

\* no array statement compiled
NoArr ==
    [location |-> -1, count |-> 0, index |-> -1, value |-> 0, save_pos |-> -1,
     read_index |-> -1, read_pos |-> -1]

\* a statement: its kind and the statements it holds
Tree(kind, sub) == [kind |-> kind, sub |-> sub]

NoEnd == [status |-> "none", ops |-> << >>]

EndIdle ==
    /\ fn_body = Tree("sequence", << >>)
    /\ fn_return = null_type
    /\ fn_end = NoEnd

ArrIdle == arr_info = NoArr /\ EndIdle

\* no insert_into_rom called
NoInsert == [data |-> << >>, index |-> 0, found |-> FALSE]

RomIdle == rom = << >> /\ interned = {} /\ last_insert = NoInsert

LaterIdle == TmplIdle /\ RegIdle /\ ForIdle /\ ArrIdle /\ RomIdle

ConvInit == ConvIdle /\ CallIdle /\ CompIdle /\ VmIdle /\ ProgIdle /\ LaterIdle

CallConstConvertableTo ==
    /\ called = "none"
    /\ \E s \in Types :
        \E d \in CopyTargets(s) :
            /\ src' = s
            /\ dst' = d
            /\ verdict' = const_convertable_to(s, d)
    /\ called' = "const_convertable_to"
    /\ UNCHANGED <<callVars, compVars, vmVars, progVars, laterVars>>

CallPushCopyTypechecked ==
    /\ called = "none"
    /\ \E s \in Types :
        \E d \in CopyTargets(s) :
            /\ src' = s
            /\ dst' = d
            /\ verdict' = push_copy_typechecked(s, d).ok
    /\ called' = "push_copy_typechecked"
    /\ UNCHANGED <<callVars, compVars, vmVars, progVars, laterVars>>

ConvNext == CallConstConvertableTo \/ CallPushCopyTypechecked

SpecConv == ConvInit /\ [][ConvNext]_vars

(***************************************************************************)
(* C7: const_convertable_to(X, X) is true for every type X of every        *)
(* variant, const_convertable_to(T, const T) is true,                      *)
(* const_convertable_to(const T, T) is false, and push_copy_typechecked    *)
(* strips the top-level const of both sides, so that it answers for        *)
(* (const T, T) what it answers for (T, T).                                *)
(***************************************************************************)
C7_ConstConvertableLaws ==
    /\ called = "const_convertable_to" =>
        /\ src = dst => verdict
        /\ (~src[1].is_const /\ dst = add_const(src)) => verdict
        /\ (~dst[1].is_const /\ src = add_const(dst)) => ~verdict
    /\ called = "push_copy_typechecked" =>
        verdict = push_copy_typechecked(remove_const(src), remove_const(dst)).ok

(***************************************************************************)
(* C8: when push_copy_typechecked accepts a copy of src into dst, every    *)
(* position of the spine below the top level that is const in src exists   *)
(* in dst and is const there.                                              *)
(***************************************************************************)
C8_ConstNeverDropped ==
    (called = "push_copy_typechecked" /\ verdict) =>
        \A i \in 2..Len(src) :
            /\ i <= Len(dst)
            /\ src[i].is_const => dst[i].is_const

C8_Witness ==
    /\ called = "push_copy_typechecked"
    /\ verdict
    /\ Len(src) = MaxDepth + 1
    /\ src[2].is_const
    /\ ~src[Len(src)].is_const
    /\ dst[Len(dst)].is_const
    /\ src[1].is_const /\ ~dst[1].is_const

(***************************************************************************)
(* SpecCall: push_expr(node_call_expr), the function-pointer branch        *)
(* (compiler.cpp 678-693) and the bound-method branch (703-722), one       *)
(* action per step of the code.                                            *)
(***************************************************************************)
ParamTypeSet ==
    { bool_type, i32_type, u64_type, add_ptr(i32_type), add_span(i32_type),
      add_array(i32_type, 2), struct_type("S") }

ParamLists == UNION { [1..n -> ParamTypeSet] : n \in 0..MaxParams }

\* The types an argument may have for push_copy_typechecked to accept it.
ArgTypesFor(expected) ==
    { a \in {expected, add_const(expected), nullptr_type} :
        push_copy_typechecked(a, expected).ok }

\* The bytes one argument leaves on the stack: the expression's value and
\* whatever push_copy_typechecked emits after it.
ArgBytes(actual, expected) ==
    size_of(actual) + BytesPushedBy(push_copy_typechecked(actual, expected).extra)

CallInit == CallIdle /\ ConvIdle /\ CompIdle /\ VmIdle /\ ProgIdle /\ LaterIdle

\* 678-683: the callee is a function pointer.
BeginFunctionPtrCall ==
    /\ call_kind = "none"
    /\ \E ps \in ParamLists : param_types' = ps
    /\ call_kind' = "function_ptr"
    /\ arg_i' = 0
    /\ args_size' = 0
    /\ pushed' = 0
    /\ call_op' = << >>
    /\ UNCHANGED <<convVars, compVars, vmVars, progVars, laterVars>>

\* 684-687: one turn of the loop over the arguments.
FunctionPtrArg ==
    /\ call_kind = "function_ptr"
    /\ call_op = << >>
    /\ arg_i # Len(param_types)
    /\ \E actual \in ArgTypesFor(param_types[arg_i + 1]) :
        pushed' = pushed + ArgBytes(actual, param_types[arg_i + 1])
    /\ args_size' = args_size + size_of(param_types[arg_i + 1])
    /\ arg_i' = arg_i + 1
    /\ UNCHANGED <<call_kind, param_types, call_op, convVars, compVars, vmVars, progVars, laterVars>>

\* 689-692: push the function pointer and emit the call.
FunctionPtrEmit ==
    /\ call_kind = "function_ptr"
    /\ call_op = << >>
    /\ arg_i = Len(param_types)
    /\ call_op' = <<Op("call", args_size)>>
    /\ UNCHANGED <<call_kind, param_types, arg_i, args_size, pushed, convVars, compVars, vmVars, progVars, laterVars>>

\* 703-713: the callee is a bound method; its first parameter is the
\* instance pointer, which the callee expression itself pushes.
BeginBoundMethodCall ==
    /\ call_kind = "none"
    /\ \E ps \in ParamLists, c \in BOOLEAN :
        LET params == <<add_ptr(with_const(struct_type("S"), c))>> \o ps
        IN  /\ param_types' = params
            /\ args_size' = size_of(params[1])
    /\ call_kind' = "bound_method"
    /\ arg_i' = 0
    /\ pushed' = PtrSize
    /\ call_op' = << >>
    /\ UNCHANGED <<convVars, compVars, vmVars, progVars, laterVars>>

\* 715-718: one turn of the loop over the explicit arguments.
BoundMethodArg ==
    /\ call_kind = "bound_method"
    /\ call_op = << >>
    /\ arg_i # Len(param_types) - 1
    /\ \E actual \in ArgTypesFor(param_types[arg_i + 2]) :
        pushed' = pushed + ArgBytes(actual, param_types[arg_i + 2])
    /\ args_size' = args_size + size_of(param_types[arg_i + 1])
    /\ arg_i' = arg_i + 1
    /\ UNCHANGED <<call_kind, param_types, call_op, convVars, compVars, vmVars, progVars, laterVars>>

\* 720-721: emit push_function_ptr and the call.
BoundMethodEmit ==
    /\ call_kind = "bound_method"
    /\ call_op = << >>
    /\ arg_i = Len(param_types) - 1
    /\ call_op' = <<Op("call", args_size)>>
    /\ UNCHANGED <<call_kind, param_types, arg_i, args_size, pushed, convVars, compVars, vmVars, progVars, laterVars>>

CallNext ==
    \/ BeginFunctionPtrCall
    \/ FunctionPtrArg
    \/ FunctionPtrEmit
    \/ BeginBoundMethodCall
    \/ BoundMethodArg
    \/ BoundMethodEmit

SpecCall == CallInit /\ [][CallNext]_vars

(***************************************************************************)
(* C6: for a function-pointer call and for a bound-method call, the        *)
(* args-size immediate of the emitted call equals the bytes pushed for the *)
(* call's arguments (the self pointer included for a bound method).        *)
(***************************************************************************)
C6_ArgsSizeIsBytesPushed ==
    call_op # << >> => call_op[1].arg = pushed

(***************************************************************************)
(* SpecVars: the variable manager driven through its interface, as the     *)
(* compiler drives it while it walks one function.                         *)
(***************************************************************************)
VarNames == {"a", "b", "c"}

VarTypes == { bool_type, add_ptr(i32_type) }

Call(fn, name, size, ok) == [fn |-> fn, name |-> name, size |-> size, ok |-> ok]

\* compile() / compile_function open the outermost scope before any statement.
VarsInit ==
    /\ scopes = new_scope(<< >>)
    /\ code = << >>
    /\ status = "compiling"
    /\ last_call = Call("new_scope", "", 0, TRUE)
    /\ last_stmt = [kind |-> "none", expr |-> << >>, type |-> << >>, value |-> << >>,
                    ok |-> TRUE]
    /\ ConvIdle
    /\ CallIdle
    /\ VmIdle
    /\ ProgIdle
    /\ LaterIdle

DeclareVar ==
    /\ status = "compiling"
    /\ \E name \in VarNames, type \in VarTypes :
        LET res == declare_var(scopes, name, type)
        IN  /\ scopes' = res.scopes
            /\ status' = IF res.ok THEN "compiling" ELSE "error"
            /\ last_call' = Call("declare", name, size_of(type), res.ok)
    /\ UNCHANGED <<code, last_stmt, convVars, callVars, vmVars, progVars, laterVars>>

NewScope ==
    /\ status = "compiling"
    /\ Len(scopes) < MaxScopes
    /\ scopes' = new_scope(scopes)
    /\ last_call' = Call("new_scope", "", 0, TRUE)
    /\ UNCHANGED <<code, status, last_stmt, convVars, callVars, vmVars, progVars, laterVars>>

NewLoopScope ==
    /\ status = "compiling"
    /\ Len(scopes) < MaxScopes
    /\ scopes' = new_loop_scope(scopes)
    /\ last_call' = Call("new_loop_scope", "", 0, TRUE)
    /\ UNCHANGED <<code, status, last_stmt, convVars, callVars, vmVars, progVars, laterVars>>

PopScope ==
    /\ status = "compiling"
    /\ Len(scopes) > 1
    /\ LET res == pop_scope(scopes)
       IN  /\ scopes' = res.scopes
           /\ code' = res.ops
           /\ last_call' = Call("pop_scope", "", res.size, TRUE)
    /\ UNCHANGED <<status, last_stmt, convVars, callVars, vmVars, progVars, laterVars>>

VarsNext == DeclareVar \/ NewScope \/ NewLoopScope \/ PopScope

SpecVars == VarsInit /\ [][VarsNext]_vars

(***************************************************************************)
(* C2: once a name is declared in a scope, find(name) keeps answering the  *)
(* same variable (offset and type) across every step that leaves that      *)
(* scope open, and answers none after the step that pops it.               *)
(***************************************************************************)
C2_FindIsStable ==
    [][\A name \in VarNames :
        LET v == find(scopes, name)
        IN  v.found =>
              IF Len(scopes') >= v.depth
              THEN find(scopes', name) = v
              ELSE ~find(scopes', name).found]_vars

C2_Witness ==
    /\ Len(scopes) = MaxScopes
    /\ find(scopes, "a").found
    /\ find(scopes, "a").depth = 1
    /\ find(scopes, "b").found
    /\ find(scopes, "b").depth = MaxScopes
    /\ find(scopes, "b").var.location > 0

(***************************************************************************)
(* C3: a declare of a name that an open scope already holds fails, leaves  *)
(* the scopes and the cursor as they were and is a fatal diagnostic; any   *)
(* other declare records the variable at the cursor and advances the       *)
(* cursor by exactly size.                                                 *)
(***************************************************************************)
C3_DeclareContract ==
    [][(last_call'.fn = "declare" /\ vars' # vars) =>
        IF \E k \in 1..Len(scopes) : scope_declares(scopes[k], last_call'.name)
        THEN /\ ~last_call'.ok
             /\ scopes' = scopes
             /\ status' = "error"
        ELSE /\ last_call'.ok
             /\ status' = "compiling"
             /\ find(scopes', last_call'.name).found
             /\ find(scopes', last_call'.name).var.location = next_location(scopes)
             /\ next_location(scopes') = next_location(scopes) + last_call'.size
             /\ \A name \in VarNames \ {last_call'.name} :
                    find(scopes', name) = find(scopes, name)]_vars

C3_Witness ==
    /\ status = "error"
    /\ last_call.fn = "declare"
    /\ ~last_call.ok
    /\ Len(scopes) = MaxScopes
    /\ find(scopes, last_call.name).depth = 1

-----------------------------------------------------------------------------
\* The stack machine of runtime.cpp: one byte vector, a frame base and a
\* program position.  A call frame starts with three 64-bit words: the
\* caller's base_ptr, the position to return to, and the size of the result.

WordSize == 8           \* sizeof(std::uint64_t)
ByteRange == 256        \* values of one std::byte
HeaderSize == 3 * WordSize
DataBytes == {1, 2}     \* the bytes a program pushes as values
RetSizes == {0, 2}      \* the result sizes a frame header may announce
MaxArgs == 1            \* bytes of arguments pushed after a frame header

\* the object representation of an integer: least significant byte first
RECURSIVE bytes_from(_, _)
bytes_from(value, n) ==
    IF n = 0 THEN << >> ELSE <<value % ByteRange>> \o bytes_from(value \div ByteRange, n - 1)

bytes_of(value) == bytes_from(value, WordSize)

RECURSIVE value_of(_)
value_of(bytes) ==
    IF bytes = << >> THEN 0 ELSE Head(bytes) + ByteRange * value_of(Tail(bytes))

write_value(mem, ptr, value) ==
    [i \in 1..Len(mem) |->
        IF i - 1 >= ptr /\ i - 1 < ptr + WordSize THEN bytes_of(value)[i - ptr] ELSE mem[i]]

read_value(mem, ptr) == value_of(SubSeq(mem, ptr + 1, ptr + WordSize))

Context(mem, base, prog) == [memory |-> mem, base_ptr |-> base, prog_ptr |-> prog]

op_load_bytes(ctx, bytes) ==
    Context(ctx.memory \o bytes, ctx.base_ptr, ctx.prog_ptr + 1)

op_pop(ctx, size) ==
    Context(SubSeq(ctx.memory, 1, Len(ctx.memory) - size), ctx.base_ptr, ctx.prog_ptr + 1)

op_loop_end(ctx, jump) == Context(ctx.memory, ctx.base_ptr, jump)

\* the copy loop of op_return, one byte per iteration, in place
RECURSIVE copy_result(_, _, _, _)
copy_result(mem, base, return_size, i) ==
    IF i = return_size THEN mem
    ELSE copy_result([mem EXCEPT ![base + i + 1] = mem[Len(mem) - return_size + i + 1]],
                     base, return_size, i + 1)

op_return(ctx) ==
    LET prev_base_ptr == read_value(ctx.memory, ctx.base_ptr)
        prev_prog_ptr == read_value(ctx.memory, ctx.base_ptr + WordSize)
        return_size == read_value(ctx.memory, ctx.base_ptr + 2 * WordSize)
        copied == copy_result(ctx.memory, ctx.base_ptr, return_size, 0)
        kept == IF Len(copied) > ctx.base_ptr + return_size
                THEN SubSeq(copied, 1, ctx.base_ptr + return_size)
                ELSE copied
    IN  Context(kept, prev_base_ptr, prev_prog_ptr)

op_function_call_same_position(ctx, op_args_size, ptr) ==
    LET new_base_ptr == Len(ctx.memory) - op_args_size
        with_base == write_value(ctx.memory, new_base_ptr, ctx.base_ptr)
        with_prog == write_value(with_base, new_base_ptr + WordSize, ctx.prog_ptr)
    IN  Context(with_prog, new_base_ptr, ptr)

op_function_call(ctx, op_args_size, ptr) ==
    LET new_base_ptr == Len(ctx.memory) - op_args_size
        with_base == write_value(ctx.memory, new_base_ptr, ctx.base_ptr)
        with_prog == write_value(with_base, new_base_ptr + WordSize, ctx.prog_ptr + 1)
    IN  Context(with_prog, new_base_ptr, ptr)

op_push_local_addr(ctx, offset, size) ==
    Context(ctx.memory \o bytes_of(ctx.base_ptr + offset) \o bytes_of(size),
            ctx.base_ptr, ctx.prog_ptr + 1)

\* the loop of op_save: the bytes on top move down into ptr .. ptr + size - 1
RECURSIVE save_bytes(_, _, _)
save_bytes(mem, ptr, i) ==
    IF i = 0 THEN mem
    ELSE save_bytes(SubSeq([mem EXCEPT ![ptr + i] = mem[Len(mem)]], 1, Len(mem) - 1),
                    ptr, i - 1)

op_save(ctx) ==
    LET size == read_value(ctx.memory, Len(ctx.memory) - WordSize)
        ptr == read_value(ctx.memory, Len(ctx.memory) - 2 * WordSize)
        popped == SubSeq(ctx.memory, 1, Len(ctx.memory) - 2 * WordSize)
    IN  Context(IF ptr + size < Len(popped) THEN save_bytes(popped, ptr, size) ELSE popped,
                ctx.base_ptr, ctx.prog_ptr + 1)

-----------------------------------------------------------------------------
\* SpecVM: the stack machine runs the ops of some compiled program.  The
\* program is any sequence of ops that keeps the conventions of compiled
\* code: a call is preceded by its frame header and arguments, a function
\* pops and saves within its own frame, and returns with its result on top.

frame_header(return_size) ==
    bytes_of(0) \o bytes_of(0) \o bytes_of(return_size)

Frame(base, prog, callee_base, return_size) ==
    [base_ptr |-> base, prog_ptr |-> prog, callee_base |-> callee_base,
     return_size |-> return_size]

ctx_now == Context(memory, base_ptr, prog_ptr)

frame_floor == IF frames = << >> THEN 0 ELSE base_ptr + HeaderSize

frame_bytes == Len(memory) - frame_floor

\* a frame header followed by k bytes of arguments is on top of the stack
header_pending(k) ==
    /\ Len(memory) - HeaderSize - k >= frame_floor
    /\ \E rs \in RetSizes :
         SubSeq(memory, Len(memory) - HeaderSize - k + 1, Len(memory) - k) = frame_header(rs)

pending == \E k \in 0..MaxArgs : header_pending(k)

\* the bytes on the stack that are not part of a frame header
data_bytes == Len(memory) - HeaderSize * (Len(frames) + IF pending THEN 1 ELSE 0)

running == prog_ptr < MaxProg /\ last_op # "push_local_addr"

VmInit ==
    /\ VmIdle
    /\ ConvIdle
    /\ CallIdle
    /\ CompIdle
    /\ ProgIdle
    /\ LaterIdle

SetContext(ctx) ==
    /\ memory' = ctx.memory
    /\ base_ptr' = ctx.base_ptr
    /\ prog_ptr' = ctx.prog_ptr
    /\ UNCHANGED d_current_size

LoadBytes ==
    /\ running
    /\ \E bytes \in { <<b>> : b \in DataBytes } \cup { frame_header(rs) : rs \in RetSizes } :
         /\ IF Len(bytes) = HeaderSize
            THEN ~pending /\ Len(frames) < MaxFrames
            ELSE /\ data_bytes < MaxData
                 /\ pending => \E k \in 0..(MaxArgs - 1) : header_pending(k)
         /\ SetContext(op_load_bytes(ctx_now, bytes))
    /\ last_op' = "load_bytes"
    /\ UNCHANGED <<frames, convVars, callVars, compVars, progVars, laterVars>>

Pop ==
    /\ running
    /\ ~pending
    /\ \E size \in 1..MaxData :
         /\ size <= frame_bytes
         /\ SetContext(op_pop(ctx_now, size))
    /\ last_op' = "pop"
    /\ UNCHANGED <<frames, convVars, callVars, compVars, progVars, laterVars>>

LoopEnd ==
    /\ running
    /\ \E jump \in 0..(MaxProg - 1) : SetContext(op_loop_end(ctx_now, jump))
    /\ last_op' = "loop_end"
    /\ UNCHANGED <<frames, convVars, callVars, compVars, progVars, laterVars>>

PushLocalAddr ==
    /\ running
    /\ ~pending
    /\ \E offset \in 0..(HeaderSize + MaxData - 1) :
         /\ base_ptr + offset >= frame_floor
         /\ \/ base_ptr + offset + 1 = Len(memory)
            \/ base_ptr + offset + 1 <= Len(memory) - 1
         /\ SetContext(op_push_local_addr(ctx_now, offset, 1))
    /\ last_op' = "push_local_addr"
    /\ UNCHANGED <<frames, convVars, callVars, compVars, progVars, laterVars>>

Save ==
    /\ prog_ptr < MaxProg
    /\ last_op = "push_local_addr"
    /\ SetContext(op_save(ctx_now))
    /\ last_op' = "save"
    /\ UNCHANGED <<frames, convVars, callVars, compVars, progVars, laterVars>>

FunctionCall ==
    /\ running
    /\ \E k \in 0..MaxArgs : \E ptr \in 0..(MaxProg - 1) :
         /\ header_pending(k)
         /\ SetContext(op_function_call(ctx_now, HeaderSize + k, ptr))
         /\ frames' = Append(frames,
                Frame(base_ptr, prog_ptr + 1, Len(memory) - HeaderSize - k,
                      read_value(memory, Len(memory) - k - WordSize)))
    /\ last_op' = "function_call"
    /\ UNCHANGED <<convVars, callVars, compVars, progVars, laterVars>>

Return ==
    /\ running
    /\ frames # << >>
    /\ ~pending
    /\ frame_bytes >= read_value(memory, base_ptr + 2 * WordSize)
    /\ SetContext(op_return(ctx_now))
    /\ frames' = SubSeq(frames, 1, Len(frames) - 1)
    /\ last_op' = "return"
    /\ UNCHANGED <<convVars, callVars, compVars, progVars, laterVars>>

VmNext ==
    \/ LoadBytes
    \/ Pop
    \/ LoopEnd
    \/ PushLocalAddr
    \/ Save
    \/ FunctionCall
    \/ Return

SpecVM == VmInit /\ [][VmNext]_vars

\* C5: a return restores the base_ptr and the program position (the one after
\* the call) that its matching call saved, moves the top return_size bytes of
\* the stack down to the frame's base, and leaves the stack exactly
\* base + return_size bytes long, whatever the nesting depth of the call.
C5_ReturnRestoresFrame ==
    [][(last_op' = "return" /\ vars' # vars) =>
         LET f == frames[Len(frames)]
         IN  /\ base_ptr = f.callee_base
             /\ base_ptr' = f.base_ptr
             /\ prog_ptr' = f.prog_ptr
             /\ Len(memory') = base_ptr + f.return_size
             /\ \A i \in 1..f.return_size :
                  memory'[base_ptr + i] = memory[Len(memory) - f.return_size + i]
             /\ SubSeq(memory', 1, base_ptr) = SubSeq(memory, 1, base_ptr)]_vars

\* the innermost of MaxFrames nested calls has returned a two-byte result,
\* into a caller that is itself a callee
C5_Witness ==
    /\ last_op = "return"
    /\ Len(frames) = MaxFrames - 1
    /\ base_ptr > 0
    /\ prog_ptr > 0
    /\ Len(memory) >= 2
    /\ memory[Len(memory)] = 2
    /\ memory[Len(memory) - 1] = 1

-----------------------------------------------------------------------------
\* Expressions.  An expression is a chain: a base (a variable name, a literal
\* or a default-constructor call) followed by the operations applied to it
\* in turn (field access, subscript by a u64 literal, dereference, address-of,
\* repeat-array).  push_expr answers whether the expression compiles in the
\* given mode, its type, and the ops it emits.

Node(kind, name) == [kind |-> kind, name |-> name]

Failed == [ok |-> FALSE, type |-> null_type, ops |-> << >>]

Pushed(type, ops) == [ok |-> TRUE, type |-> type, ops |-> ops]

RepeatCount == 2        \* the size written in a repeat-array literal

RECURSIVE strip_pointers(_)
strip_pointers(t) == IF is_ptr(t) THEN strip_pointers(remove_ptr(t)) ELSE t

RECURSIVE auto_deref_pointer(_)
auto_deref_pointer(t) ==
    IF is_ptr(t) THEN <<Op("load", PtrSize)>> \o auto_deref_pointer(remove_ptr(t)) ELSE << >>

RECURSIVE field_offset(_, _, _)
field_offset(fields, field_name, i) ==
    IF fields[i].name = field_name THEN 0
    ELSE size_of(fields[i].type) + field_offset(fields, field_name, i + 1)

push_field_offset(type, field_name) ==
    LET fields == fields_of(type)
    IN  IF \E i \in 1..Len(fields) : fields[i].name = field_name
        THEN LET i == CHOOSE i \in 1..Len(fields) : fields[i].name = field_name
             IN  Pushed(fields[i].type, <<Op("push_u64", field_offset(fields, field_name, 1))>>)
        ELSE Failed

push_var_addr(scs, name) ==
    LET var == find(scs, name)
    IN  IF var.found
        THEN Pushed(var.var.type, <<Op("push_ptr_local", var.var.location)>>)
        ELSE Failed

\* the type a field access hands back, with the const of its owner left out
field_type_as_declared(stripped, field_type) == field_type

\* compiler.cpp 1041: a field of a const object is const
field_type_of(stripped, field_type) ==
    IF stripped[1].is_const THEN add_const(field_type) ELSE field_type

\* compiler.cpp 1084-1088: an element of a const array is const
element_type_of(type) ==
    IF is_array(type) /\ type[1].is_const THEN add_const(inner_type(type))
    ELSE inner_type(type)

literal_type(name) ==
    CASE name = "i32" -> i32_type
      [] name = "u64" -> u64_type
      [] name = "bool" -> bool_type
      [] name = "null" -> null_type
      [] OTHER -> nullptr_type

RECURSIVE push_expr(_, _, _)
push_expr(scs, ct, e) ==
    LET node == e[Len(e)]
        sub == SubSeq(e, 1, Len(e) - 1)
        sub_val == push_expr(scs, "val", sub)
        sub_ptr == push_expr(scs, "ptr", sub)
        type == sub_val.type
    IN  CASE node.kind = "literal" ->
                IF ct = "val"
                THEN Pushed(literal_type(node.name),
                            <<Op("push_" \o node.name,
                                 IF node.name \in {"null", "nullptr"} THEN 0 ELSE 1)>>)
                ELSE Failed
          [] node.kind = "construct" ->
                IF ct = "val"
                THEN Pushed(struct_type(node.name), <<Op("push", size_of(struct_type(node.name)))>>)
                ELSE Failed
          [] node.kind = "name" ->
                LET addr == push_var_addr(scs, node.name)
                IN  IF ~addr.ok THEN Failed
                    ELSE IF ct = "ptr" THEN addr
                    ELSE Pushed(addr.type, addr.ops \o <<Op("load", size_of(addr.type))>>)
          [] node.kind = "field" ->
                LET stripped == strip_pointers(type)
                    offset == push_field_offset(stripped, node.name)
                IN  IF ~sub_val.ok THEN Failed
                    ELSE IF (is_array(type) \/ is_span(type) \/ is_arena(type)) /\ ct # "val"
                        THEN Failed
                    ELSE IF ~sub_ptr.ok \/ ~offset.ok THEN Failed
                    ELSE Pushed(field_type_of(stripped, offset.type),
                                sub_ptr.ops \o auto_deref_pointer(type) \o offset.ops
                                \o <<Op("u64_add", 0)>>
                                \o IF ct = "val" THEN <<Op("load", size_of(offset.type))>>
                                   ELSE << >>)
          [] node.kind = "deref" ->
                IF ~sub_val.ok \/ ~is_ptr(type) THEN Failed
                ELSE Pushed(remove_ptr(type),
                            sub_val.ops \o IF ct = "val" THEN <<Op("load", size_of(type))>>
                                           ELSE << >>)
          [] node.kind = "subscript" ->
                LET t == element_type_of(type)
                IN  IF ~sub_val.ok THEN Failed
                    ELSE IF ~(is_array(type) \/ is_span(type)) THEN Failed
                    ELSE IF ~sub_ptr.ok THEN Failed
                    ELSE Pushed(t,
                            sub_ptr.ops
                            \o (IF is_span(type) THEN <<Op("load", PtrSize)>> ELSE << >>)
                            \o <<Op("push_u64", 0), Op("push_u64", size_of(inner_type(type))),
                                 Op("u64_mul", 0), Op("u64_add", 0)>>
                            \o IF ct = "val" THEN <<Op("load", size_of(t))>> ELSE << >>)
          [] node.kind = "addrof" ->
                IF ct # "val" \/ ~sub_val.ok \/ size_of(type) = 0 \/ ~sub_ptr.ok THEN Failed
                ELSE Pushed(add_ptr(type), sub_ptr.ops)
          [] node.kind = "repeat_array" ->
                IF ct # "val" \/ ~sub_val.ok THEN Failed
                ELSE Pushed(add_array(type, RepeatCount),
                            [i \in 1..(RepeatCount * Len(sub_val.ops)) |->
                                sub_val.ops[((i - 1) % Len(sub_val.ops)) + 1]])
          [] OTHER -> Failed

\* type_of_expr (compiler.cpp 204-210): compiles in val mode, then drops the
\* ops it added.
type_of_expr(scs, e) == [push_expr(scs, "val", e) EXCEPT !.ops = << >>]

is_lvalue_expr(e) == e[Len(e)].kind \in {"name", "field", "deref", "subscript"}

-----------------------------------------------------------------------------
\* SpecStmt: the body of a function with one parameter is compiled, a
\* statement at a time: declarations, then an assignment or an expression
\* statement.  A fatal diagnostic ends the compilation.

MaxSteps == 2           \* operations applied to the base of an expression
MaxLocals == 1          \* variables declared in the body

Bases ==
    { <<Node("name", n)>> : n \in {"a", "b"} }
        \cup { <<Node("literal", l)>> : l \in {"i32"} }
        \cup { <<Node("construct", t)>> : t \in {"S", "P"} }

Steps ==
    { Node("field", f) : f \in {"x", "arr", "s", "q"} }
        \cup { Node(k, "") : k \in {"subscript", "deref", "addrof", "repeat_array"} }

RECURSIVE ExprsOfSteps(_)
ExprsOfSteps(n) ==
    IF n = 0 THEN Bases
    ELSE ExprsOfSteps(n - 1) \cup { Append(e, st) : e \in ExprsOfSteps(n - 1), st \in Steps }

Exprs == ExprsOfSteps(MaxSteps)

\* the types of the parameter
StmtParamTypes ==
    { struct_type("S"), struct_type("P"),
      add_const(struct_type("S")),
      add_ptr(add_const(struct_type("S"))),
      add_ptr(add_ptr(struct_type("S"))),
      add_const(add_array(add_array(i32_type, 2), 2)),
      add_span(i32_type) }

\* kind: the statement; expr: the expression declared from, assigned to or
\* evaluated; type: the type declared, assigned to or evaluated; value: the
\* type of the value copied; ok: compiled, or ended in a fatal diagnostic.
\* A diagnostic from anywhere but the copy leaves expr, type and value empty.
Stmt(kind, e, type, value, ok) ==
    [kind |-> kind, expr |-> e, type |-> type, value |-> value, ok |-> ok]

NoStmt == Stmt("none", << >>, << >>, << >>, TRUE)

locals_declared == Len(scopes[1].variables) - 1

StmtInit ==
    /\ \E t \in StmtParamTypes : scopes = declare_var(new_scope(<< >>), "a", t).scopes
    /\ code = << >>
    /\ status = "compiling"
    /\ last_call = Call("declare", "a", 0, TRUE)
    /\ last_stmt = NoStmt
    /\ ConvIdle
    /\ CallIdle
    /\ VmIdle
    /\ ProgIdle
    /\ LaterIdle

\* the assert of compiler.cpp 1299, dropped
assignable_whatever(lhs_type) == TRUE

\* compiler.cpp 1299: "cannot assign to a const variable"
assignable(lhs_type) == ~lhs_type[1].is_const

FatalError(kind) ==
    /\ status' = "error"
    /\ last_stmt' = Stmt(kind, << >>, << >>, << >>, FALSE)
    /\ UNCHANGED <<scopes, code, last_call, laterVars>>

CopyError(kind, type, value) ==
    /\ status' = "error"
    /\ last_stmt' = Stmt(kind, << >>, type, value, FALSE)
    /\ UNCHANGED <<scopes, code, last_call, laterVars>>

DeclarationStmt ==
    /\ status = "compiling"
    /\ locals_declared < MaxLocals
    /\ \E name \in {"a", "b"} : \E add_const_flag \in BOOLEAN : \E e \in Exprs :
         LET typed == type_of_expr(scopes, e)
             type == with_const(typed.type, add_const_flag)
             copy == push_copy_typechecked(typed.type, type)
             declared == declare_var(scopes, name, type)
         IN  IF ~typed.ok \/ is_arena(type)
             THEN FatalError("declaration")
             ELSE IF ~copy.ok
             THEN CopyError("declaration", type, typed.type)
             ELSE IF ~declared.ok
             THEN FatalError("declaration")
             ELSE /\ scopes' = declared.scopes
                  /\ code' = push_expr(scopes, "val", e).ops \o copy.extra
                  /\ last_call' = Call("declare", name, size_of(type), TRUE)
                  /\ last_stmt' = Stmt("declaration", e, type, typed.type, TRUE)
                  /\ UNCHANGED status
    /\ UNCHANGED <<convVars, callVars, vmVars, progVars, laterVars>>

AssignmentStmt ==
    /\ status = "compiling"
    /\ \E position \in Exprs : \E e \in Bases :
         LET lhs_type == type_of_expr(scopes, position)
             rhs == push_expr(scopes, "val", e)
             copy == push_copy_typechecked(rhs.type, lhs_type.type)
             lhs == push_expr(scopes, "ptr", position)
         IN  IF ~lhs_type.ok \/ ~assignable(lhs_type.type)
             THEN FatalError("assignment")
             ELSE IF ~rhs.ok
             THEN FatalError("assignment")
             ELSE IF ~copy.ok
             THEN CopyError("assignment", lhs_type.type, rhs.type)
             ELSE IF ~lhs.ok
             THEN FatalError("assignment")
             ELSE /\ code' = rhs.ops \o copy.extra \o lhs.ops
                               \o <<Op("save", size_of(lhs.type))>>
                  /\ status' = "compiled"
                  /\ last_stmt' = Stmt("assignment", position, lhs.type, rhs.type, TRUE)
                  /\ UNCHANGED <<scopes, last_call, laterVars>>
    /\ UNCHANGED <<convVars, callVars, vmVars, progVars, laterVars>>

ExpressionStmt ==
    /\ status = "compiling"
    /\ \E e \in Exprs :
         LET pushed_expr == push_expr(scopes, "val", e)
         IN  IF ~pushed_expr.ok
             THEN FatalError("expression")
             ELSE /\ code' = pushed_expr.ops \o <<Op("pop", size_of(pushed_expr.type))>>
                  /\ status' = "compiled"
                  /\ last_stmt' = Stmt("expression", e, pushed_expr.type, << >>, TRUE)
                  /\ UNCHANGED <<scopes, last_call, laterVars>>
    /\ UNCHANGED <<convVars, callVars, vmVars, progVars, laterVars>>

StmtNext ==
    \/ DeclarationStmt
    \/ AssignmentStmt
    \/ ExpressionStmt

SpecStmt == StmtInit /\ [][StmtNext]_vars

owner_of(e) == SubSeq(e, 1, Len(e) - 1)

owner_type(e) == type_of_expr(scopes, owner_of(e)).type

\* C9: the type of a field access is const when the struct accessed, reached
\* directly or through any number of pointers, is const; the type of a
\* subscript on a const array of T is const T; and a copy (the value of a
\* declaration, the right-hand side of an assignment) is never refused for a
\* const at the top level of the value or of its destination.
C9_ConstPropagatesAndIsStripped ==
    LET e == last_stmt.expr
        t == last_stmt.type
    IN  /\ (/\ last_stmt.ok
            /\ last_stmt.kind = "expression"
            /\ e[Len(e)].kind = "field"
            /\ strip_pointers(owner_type(e))[1].is_const)
           => t[1].is_const
        /\ (/\ last_stmt.ok
            /\ last_stmt.kind = "expression"
            /\ e[Len(e)].kind = "subscript"
            /\ is_array(owner_type(e))
            /\ owner_type(e)[1].is_const)
           => t = add_const(inner_type(owner_type(e)))
        /\ (/\ last_stmt.kind \in {"declaration", "assignment"}
            /\ last_stmt.value # << >>
            /\ remove_const(last_stmt.value) = remove_const(t))
           => last_stmt.ok

\* a field read through a pointer to a const struct
C9_Witness ==
    /\ last_stmt.ok
    /\ last_stmt.kind = "expression"
    /\ Len(last_stmt.expr) = MaxSteps + 1
    /\ last_stmt.expr[Len(last_stmt.expr)].kind = "field"
    /\ is_ptr(owner_type(last_stmt.expr))
    /\ strip_pointers(owner_type(last_stmt.expr))[1].is_const
    /\ last_stmt.type[1].is_const

\* the expression names bytes of the variable at its base: every step from
\* the base is a field of a struct held by value or an element of an array
RECURSIVE in_storage_of_base(_, _)
in_storage_of_base(scs, e) ==
    IF Len(e) = 1 THEN e[1].kind = "name"
    ELSE LET owner == type_of_expr(scs, owner_of(e))
         IN  /\ owner.ok
             /\ \/ e[Len(e)].kind = "field" /\ owner.type[1].kind = "struct"
                \/ e[Len(e)].kind = "subscript" /\ is_array(owner.type)
             /\ in_storage_of_base(scs, owner_of(e))

declared_const(scs, name) == find(scs, name).found /\ find(scs, name).var.type[1].is_const

\* C10: an assignment that compiles has an lvalue expression of non-const
\* type as its target, and its save never lands in the storage of a variable
\* declared const, be the target that variable, a field or an element of it.
C10_AssignmentTarget ==
    (last_stmt.kind = "assignment" /\ last_stmt.ok) =>
        /\ is_lvalue_expr(last_stmt.expr)
        /\ ~type_of_expr(scopes, last_stmt.expr).type[1].is_const
        /\ code[Len(code)].op = "save"
        /\ ~(/\ in_storage_of_base(scopes, last_stmt.expr)
             /\ declared_const(scopes, last_stmt.expr[1].name))

\* an assignment compiled whose target starts at a const variable and leaves
\* its storage through a pointer
C10_Witness ==
    /\ last_stmt.kind = "assignment"
    /\ last_stmt.ok
    /\ Len(last_stmt.expr) = MaxSteps + 1
    /\ last_stmt.expr[1].kind = "name"
    /\ declared_const(scopes, last_stmt.expr[1].name)
    /\ ~in_storage_of_base(scopes, last_stmt.expr)

-----------------------------------------------------------------------------
\* SpecProg: a function `fn f(c: bool) -> null` is compiled, a statement at a
\* time, and then run.  The body of an if, a loop or the function is one
\* statement, which may be a block.  Positions are byte offsets into the
\* function's code; a jump holds the offset it targets.

MaxStmts == 3           \* statements of the function, blocks not counted
MaxOpen == 4            \* statements open at once, the function included

\* the bytes of an instruction: the opcode and its immediates
op_len(o) ==
    1 + CASE o.op \in {"push_null", "bool_not", "u64_add", "u64_mul", "u64_eq"} -> 0
          [] o.op = "push_bool" -> 1
          [] o.op = "push_i32" -> 4
          [] OTHER -> 8

RECURSIVE code_size(_)
code_size(ops) == IF ops = << >> THEN 0 ELSE op_len(Head(ops)) + code_size(Tail(ops))

\* the immediate of the idx-th instruction is overwritten
write_target(ops, idx, value) == [ops EXCEPT ![idx].arg = value]

\* the fix-up loops of push_loop, leaving the placeholders in place
write_targets_skipped(ops, idxs, value) == ops

RECURSIVE write_targets(_, _, _)
write_targets(ops, idxs, value) ==
    IF idxs = << >> THEN ops
    ELSE write_targets(write_target(ops, Head(idxs), value), Tail(idxs), value)

\* handle_function_exit: the pop of every scope of the function, the scopes
\* themselves staying open
handle_function_exit(scs) ==
    LET size == next_location(scs) - scs[1].start
    IN  IF size > 0 THEN <<Op("pop", size)>> ELSE << >>

\* cursor and depth: the next-offset cursor and the number of open scopes
\* when a block was opened
Open(kind) ==
    [kind |-> kind, jump_pos |-> 0, else_pos |-> 0, in_else_pos |-> 0, begin_pos |-> 0,
     body_done |-> FALSE, then_returns |-> FALSE, returns |-> FALSE, cursor |-> 0,
     depth |-> 0]

\* the statement on top of the open ones has compiled a statement of its
\* own; ends_in_return says whether that statement ends in a return
complete(opened, ends_in_return) ==
    [opened EXCEPT ![Len(opened)] = [@ EXCEPT !.body_done = TRUE, !.returns = ends_in_return]]

enclosing(opened) == SubSeq(opened, 1, Len(opened) - 1)

ProgExprs ==
    { <<Node("literal", "i32")>>, <<Node("name", "x")>>,
      <<Node("name", "x"), Node("addrof", "")>>,
      <<Node("name", "p"), Node("deref", "")>> }

CondExprs == { <<Node("name", "c")>>, <<Node("literal", "bool")>> }

\* the parameter lists of the function: none, or one bool
ProgParams == { << >>, <<"c">> }

ProgInit ==
    /\ \E params \in ProgParams :
         /\ scopes = IF params = << >> THEN new_scope(<< >>)
                     ELSE declare_var(new_scope(<< >>), params[1], bool_type).scopes
         /\ last_call = IF params = << >> THEN Call("new_scope", "", 0, TRUE)
                        ELSE Call("declare", params[1], size_of(bool_type), TRUE)
    /\ code = << >>
    /\ status = "compiling"
    /\ last_stmt = NoStmt
    /\ open = <<Open("function")>>
    /\ stmts = 0
    /\ boundaries = { <<0, next_location(scopes)>> }
    /\ LaterIdle
    /\ loops = {}
    /\ pc = 0
    /\ stack = << >>
    /\ stale = << >>
    /\ ConvIdle
    /\ CallIdle
    /\ VmIdle

\* a statement can start; in the function with the parameter a the first
\* statement is the for statement
can_start ==
    /\ status = "compiling"
    /\ open # << >>
    /\ open[Len(open)].kind = "block" \/ ~open[Len(open)].body_done
    /\ stmts < MaxStmts
    /\ iterable = << >> \/ for_info # NoFor

can_open == can_start /\ Len(open) < MaxOpen

EmitLoop(new_scopes, new_code, new_open, count, new_loops) ==
    /\ scopes' = new_scopes
    /\ code' = new_code
    /\ open' = new_open
    /\ stmts' = stmts + count
    /\ boundaries' = boundaries \cup { <<code_size(new_code), next_location(new_scopes)>> }
    /\ loops' = new_loops
    /\ UNCHANGED <<status, last_call, last_stmt, pc, stack, stale, convVars, callVars, vmVars, laterVars>>

Emit(new_scopes, new_code, new_open, count) ==
    EmitLoop(new_scopes, new_code, new_open, count, loops)

ProgError ==
    /\ status' = "error"
    /\ UNCHANGED <<scopes, code, last_call, last_stmt, progVars, convVars, callVars, vmVars, laterVars>>

CompileDeclaration ==
    /\ can_start
    /\ \E name \in {"x", "p"} : \E e \in ProgExprs :
         LET typed == push_expr(scopes, "val", e)
             type == with_const(typed.type, FALSE)
             copy == push_copy_typechecked(typed.type, type)
             declared == declare_var(scopes, name, type)
         IN  IF ~typed.ok \/ is_arena(type) \/ ~copy.ok \/ ~declared.ok
             THEN ProgError
             ELSE Emit(declared.scopes, code \o typed.ops \o copy.extra,
                       complete(open, FALSE), 1)

CompileExpression ==
    /\ can_start
    /\ \E e \in ProgExprs :
         LET typed == push_expr(scopes, "val", e)
         IN  IF ~typed.ok
             THEN ProgError
             ELSE Emit(scopes, code \o typed.ops \o <<Op("pop", size_of(typed.type))>>,
                       complete(open, FALSE), 1)

CompileBlock ==
    /\ can_open
    /\ Emit(new_scope(scopes), code,
            Append(open, [Open("block") EXCEPT !.cursor = next_location(scopes),
                                               !.depth = Len(scopes)]), 0)

CompileEndBlock ==
    /\ status = "compiling"
    /\ open # << >>
    /\ open[Len(open)].kind = "block"
    /\ LET popped == pop_scope(scopes)
       IN  Emit(popped.scopes, code \o popped.ops,
                complete(enclosing(open), open[Len(open)].returns), 0)

CompileIf ==
    /\ can_open
    /\ \E cond \in CondExprs :
         LET typed == push_expr(scopes, "val", cond)
             new_code == code \o typed.ops \o <<Op("jump_if_false", 0)>>
         IN  IF ~typed.ok \/ typed.type # bool_type
             THEN ProgError
             ELSE Emit(scopes, new_code,
                       Append(open, [Open("if") EXCEPT !.jump_pos = Len(new_code)]), 1)

CompileElse ==
    /\ status = "compiling"
    /\ open # << >>
    /\ open[Len(open)].kind = "if"
    /\ open[Len(open)].body_done
    /\ stmts < MaxStmts
    /\ LET new_code == code \o <<Op("jump", 0)>>
       IN  Emit(scopes, new_code,
                [open EXCEPT ![Len(open)] =
                    [@ EXCEPT !.kind = "else", !.else_pos = Len(new_code),
                              !.in_else_pos = code_size(new_code),
                              !.body_done = FALSE,
                              !.then_returns = open[Len(open)].returns,
                              !.returns = FALSE]], 0)

CompileEndIf ==
    /\ status = "compiling"
    /\ open # << >>
    /\ open[Len(open)].kind \in {"if", "else"}
    /\ open[Len(open)].body_done
    /\ LET top == open[Len(open)]
       IN  IF top.kind = "if"
           THEN Emit(scopes, write_target(code, top.jump_pos, code_size(code)),
                     complete(enclosing(open), FALSE), 0)
           ELSE Emit(scopes,
                     write_target(write_target(code, top.jump_pos, top.in_else_pos),
                                  top.else_pos, code_size(code)),
                     complete(enclosing(open), top.then_returns /\ top.returns), 0)

Loop(begin_pos, end_pos, breaks, continues) ==
    [begin_pos |-> begin_pos, end_pos |-> end_pos, breaks |-> breaks, continues |-> continues]

\* the scopes with the position of a break or continue jump added to the
\* innermost loop scope
with_break(scs, idx) == [scs EXCEPT ![loop_index(scs)].breaks = Append(@, idx)]

with_continue(scs, idx) == [scs EXCEPT ![loop_index(scs)].continues = Append(@, idx)]

CompileLoop ==
    /\ can_open
    /\ Emit(new_scope(new_loop_scope(scopes)), code,
            Append(open, [Open("loop") EXCEPT !.begin_pos = code_size(code)]), 1)

CompileWhile ==
    /\ can_open
    /\ \E cond \in CondExprs :
         LET scs == new_scope(new_loop_scope(scopes))
             typed == push_expr(scs, "val", cond)
             break_code == handle_loop_exit(scs) \o <<Op("jump", 0)>>
             tested == code \o typed.ops \o <<Op("bool_not", 0)>>
             broken == tested \o <<Op("jump_if_false", 0)>> \o break_code
             new_code == write_target(broken, Len(tested) + 1, code_size(broken))
         IN  IF ~typed.ok \/ typed.type # bool_type
             THEN ProgError
             ELSE Emit(with_break(scs, Len(new_code)), new_code,
                       Append(open, [Open("while") EXCEPT !.begin_pos = code_size(code)]), 1)

CompileEndLoop ==
    /\ status = "compiling"
    /\ open # << >>
    /\ open[Len(open)].kind \in {"loop", "while"}
    /\ open[Len(open)].body_done
    /\ LET begin_pos == open[Len(open)].begin_pos
           body_scope == pop_scope(scopes)
           looped == code \o body_scope.ops \o <<Op("jump", begin_pos)>>
           control_flow == get_loop_info(body_scope.scopes)
           with_breaks == write_targets(looped, control_flow.breaks, code_size(looped))
           with_continues == write_targets(with_breaks, control_flow.continues, begin_pos)
           loop_scope == pop_scope(body_scope.scopes)
       IN  EmitLoop(loop_scope.scopes, with_continues \o loop_scope.ops,
                    complete(enclosing(open), FALSE), 0,
                    loops \cup { Loop(begin_pos, code_size(looped), control_flow.breaks,
                                       control_flow.continues) })

CompileBreak ==
    /\ can_start
    /\ IF ~in_loop(scopes)
       THEN ProgError
       ELSE LET new_code == code \o handle_loop_exit(scopes) \o <<Op("jump", 0)>>
            IN  Emit(with_break(scopes, Len(new_code)), new_code, complete(open, FALSE), 1)

CompileContinue ==
    /\ can_start
    /\ IF ~in_loop(scopes)
       THEN ProgError
       ELSE LET new_code == code \o handle_loop_exit(scopes) \o <<Op("jump", 0)>>
            IN  Emit(with_continue(scopes, Len(new_code)), new_code, complete(open, FALSE), 1)

CompileReturn ==
    /\ can_start
    /\ LET value == push_expr(scopes, "val", <<Node("literal", "null")>>)
       IN  Emit(scopes,
                code \o value.ops \o handle_function_exit(scopes)
                     \o <<Op("ret", size_of(value.type))>>,
                complete(open, TRUE), 1)

CompileFunctionEnd ==
    /\ status = "compiling"
    /\ Len(open) = 1
    /\ open[1].kind = "function"
    /\ open[1].body_done
    /\ LET popped == pop_scope(scopes)
           final == IF open[1].returns THEN << >>
                    ELSE <<Op("push_null", 0), Op("ret", 1)>>
       IN  /\ code' = code \o final \o popped.ops
           /\ scopes' = popped.scopes
    /\ open' = << >>
    /\ status' = "compiled"
    /\ UNCHANGED <<last_call, last_stmt, stmts, boundaries, loops, pc, stack, stale,
                   convVars, callVars, vmVars, laterVars>>

\* The running function.  Its frame starts at the bottom of the stack, with
\* the arguments the caller pushed.

\* the index of the instruction at a position, 0 when there is none
RECURSIVE instruction_from(_, _, _, _)
instruction_from(ops, i, at, position) ==
    CASE i > Len(ops) \/ at > position -> 0
      [] at = position -> i
      [] OTHER -> instruction_from(ops, i + 1, at + op_len(ops[i]), position)

instruction_at(ops, position) == instruction_from(ops, 1, 0, position)

current == code[instruction_at(code, pc)]

next_pc == pc + op_len(current)

executing(names) ==
    /\ status = "running"
    /\ instruction_at(code, pc) # 0
    /\ current.op \in names

\* a word the model can hold as a number: below 2^24
representable(bytes) == \A i \in 4..Len(bytes) : bytes[i] = 0

\* the number a word holds, -1 for one the model cannot hold
word_of(bytes) == IF representable(bytes) THEN value_of(bytes) ELSE -1

\* vm_stack::d_data: the bytes of the stack and, above its top, the bytes
\* that pops have left there
memory_image == stack \o stale

\* the number in the word at a location of the memory, -1 for a word that
\* was never written or that the model cannot hold
word_at(image, location) ==
    IF location + WordSize <= Len(image)
    THEN word_of(SubSeq(image, location + 1, location + WordSize))
    ELSE -1

\* the memory once the stack holds new_stack
image_with(new_stack) ==
    new_stack \o SubSeq(memory_image, Len(new_stack) + 1, Len(memory_image))

\* what the for body has been entered with, after the instruction at pc:
\* nothing when the for statement starts, one more element pointer when the
\* last instruction before the body has run
observe(new_stack) ==
    CASE pc = for_info.header_pos -> << >>
      [] pc = for_info.entry_pos ->
            Append(entered, word_at(image_with(new_stack), for_info.var_location))
      [] OTHER -> entered

\* one op has run: the stack holds new_stack and the memory above its top
\* is what image holds there
StepImage(new_pc, new_stack, image) ==
    /\ pc' = new_pc
    /\ stack' = new_stack
    /\ stale' = SubSeq(image, Len(new_stack) + 1, Len(image))
    /\ entered' = observe(new_stack)
    /\ UNCHANGED <<status, scopes, code, last_call, last_stmt, open, stmts, boundaries, loops,
                   convVars, callVars, vmVars, tmplVars, regVars, romVars, arrVars, iterable, for_info>>

Step(new_pc, new_stack) == StepImage(new_pc, new_stack, memory_image)

Stop(new_status) ==
    /\ status' = new_status
    /\ UNCHANGED <<scopes, code, last_call, last_stmt, progVars, convVars, callVars, vmVars, laterVars>>

popped_bytes(n) == SubSeq(stack, 1, Len(stack) - n)

CallFunction ==
    /\ status = "compiled"
    /\ iterable = << >>
    /\ \E args \in IF <<0, 0>> \in boundaries THEN { << >> } ELSE { <<0>>, <<1>> } :
         /\ stack' = args
         /\ stale' = << >>
         /\ pc' = 0
    /\ status' = "running"
    /\ UNCHANGED <<scopes, code, last_call, last_stmt, open, stmts, boundaries, loops,
                   convVars, callVars, vmVars, laterVars>>

ExecPush ==
    /\ executing({"push_i32", "push_u64", "push_bool", "push_null"})
    /\ Step(next_pc, stack \o bytes_from(current.arg, op_len(current) - 1)
                           \o IF current.op = "push_null" THEN <<0>> ELSE << >>)

ExecPushPtrLocal ==
    /\ executing({"push_ptr_local"})
    /\ Step(next_pc, stack \o bytes_of(current.arg))

\* load reads the memory at the pointer, above the top of the stack too; a
\* read of bytes never written stops the run
ExecLoad ==
    /\ executing({"load"})
    /\ LET ptr == word_at(stack, Len(stack) - PtrSize)
           rest == popped_bytes(PtrSize)
       IN  IF Len(stack) >= PtrSize /\ ptr >= 0 /\ ptr + current.arg <= Len(memory_image)
           THEN Step(next_pc, rest \o SubSeq(memory_image, ptr + 1, ptr + current.arg))
           ELSE Stop("fault")

ExecPop ==
    /\ executing({"pop"})
    /\ IF current.arg <= Len(stack)
       THEN Step(next_pc, popped_bytes(current.arg))
       ELSE Stop("fault")

ExecBoolNot ==
    /\ executing({"bool_not"})
    /\ Step(next_pc, popped_bytes(1) \o <<1 - stack[Len(stack)]>>)

ExecJump ==
    /\ executing({"jump"})
    /\ Step(current.arg, stack)

\* jump_if_false that jumps on a true byte
ExecJumpIfTrue ==
    /\ executing({"jump_if_false"})
    /\ Step(IF stack[Len(stack)] # 0 THEN current.arg ELSE next_pc, popped_bytes(1))

ExecJumpIfFalse ==
    /\ executing({"jump_if_false"})
    /\ Step(IF stack[Len(stack)] = 0 THEN current.arg ELSE next_pc, popped_bytes(1))

ExecRet ==
    /\ executing({"ret"})
    /\ Stop("returned")

Run ==
    \/ CallFunction
    \/ ExecPush
    \/ ExecPushPtrLocal
    \/ ExecLoad
    \/ ExecPop
    \/ ExecBoolNot
    \/ ExecJump
    \/ ExecJumpIfFalse
    \/ ExecRet

Compile ==
    \/ CompileDeclaration
    \/ CompileExpression
    \/ CompileBlock
    \/ CompileEndBlock
    \/ CompileIf
    \/ CompileElse
    \/ CompileEndIf
    \/ CompileLoop
    \/ CompileWhile
    \/ CompileEndLoop
    \/ CompileBreak
    \/ CompileContinue
    \/ CompileReturn
    \/ CompileFunctionEnd

ProgNext == Compile \/ Run

SpecProg == ProgInit /\ [][ProgNext]_vars

\* C1: whenever the running function is at a statement boundary, the bytes
\* on the stack above the frame base are as many as the offset cursor of the
\* variable manager counted when it compiled that boundary.
C1_DepthIsCursor ==
    status = "running" =>
        \A b \in boundaries : b[1] = pc => Len(stack) = b[2]

\* the positions at which an instruction of the code starts, and the
\* position just after its last instruction
instruction_positions(ops) == { code_size(SubSeq(ops, 1, k)) : k \in 0..Len(ops) }

position_of(ops, idx) == code_size(SubSeq(ops, 1, idx - 1))

jumps_of(l, idxs, target) ==
    \A k \in 1..Len(idxs) :
        /\ code[idxs[k]].op = "jump"
        /\ code[idxs[k]].arg = target
        /\ position_of(code, idxs[k]) \in l.begin_pos..l.end_pos

CompileIfDeclaration ==
    /\ can_start
    /\ \E cond \in CondExprs : \E name \in {"x", "p"} : \E e \in ProgExprs :
         \E tested \in { push_expr(scopes, "val", cond) } :
         \E typed \in { push_expr(scopes, "val", e) } :
         \E type \in { with_const(typed.type, FALSE) } :
         \E copy \in { push_copy_typechecked(typed.type, type) } :
         \E declared \in { declare_var(scopes, name, type) } :
         \E head \in { code \o tested.ops \o <<Op("jump_if_false", 0)>> } :
         \E body \in { head \o typed.ops \o copy.extra } :
             IF \/ ~tested.ok \/ tested.type # bool_type
                \/ ~typed.ok \/ is_arena(type) \/ ~copy.ok \/ ~declared.ok
             THEN ProgError
             ELSE /\ scopes' = declared.scopes
                  /\ code' = write_target(body, Len(head), code_size(body))
                  /\ open' = complete(open, FALSE)
                  /\ stmts' = stmts + 1
                  /\ boundaries' = boundaries \cup
                         { <<code_size(head), next_location(scopes)>>,
                           <<code_size(body), next_location(declared.scopes)>> }
                  /\ UNCHANGED <<status, last_call, last_stmt, loops, pc, stack, stale,
                                 convVars, callVars, vmVars, laterVars>>

DeclNext ==
    \/ CompileIfDeclaration
    \/ CompileBlock
    \/ CompileEndBlock
    \/ CompileDeclaration
    \/ CompileExpression
    \/ CompileFunctionEnd
    \/ CallFunction
    \/ ExecPush
    \/ ExecPushPtrLocal
    \/ ExecLoad
    \/ ExecPop
    \/ ExecJumpIfFalse
    \/ ExecRet

SpecDecl == ProgInit /\ [][DeclNext]_vars

\* push_stmt(node_declaration_stmt) whose initialiser is the one push op at
\* index i of the code: the statement starts at a boundary with the cursor
\* at location and ends at one with the cursor past the variable
literal_declaration(i, location, size) ==
    /\ code[i].op \in {"push_i32", "push_ptr_local"}
    /\ size = op_len(code[i]) - 1
    /\ <<position_of(code, i), location>> \in boundaries
    /\ <<position_of(code, i + 1), location + size>> \in boundaries

\* the bytes the initialiser at index i pushes
initialiser_bytes(i) == bytes_from(code[i].arg, op_len(code[i]) - 1)

\* load_variable: the ops at j and j + 1 push the variable's address and
\* load size_of(type) bytes
loads_variable(j) ==
    /\ j + 1 <= Len(code)
    /\ code[j].op = "push_ptr_local"
    /\ code[j + 1].op = "load"

\* the variable declared at index i is not popped before index j
still_declared(i, j, location, size) ==
    \A b \in boundaries :
        (position_of(code, i + 1) <= b[1] /\ b[1] <= position_of(code, j)) =>
            b[2] >= location + size

\* no jump before index i goes past it: every path to a later op runs op i
never_skipped(i) ==
    \A m \in 1..(i - 1) :
        code[m].op \in {"jump", "jump_if_false"} => code[m].arg <= position_of(code, i)

\* C13: when the run has just loaded a variable (its address pushed, then
\* size_of(type) bytes loaded) whose declaration has a literal or an address
\* as initialiser, which every path has run and which nothing has assigned
\* to, the bytes on top of the stack are the bytes that initialiser pushes.
C13_LoadGivesInitialiser ==
    status = "running" =>
        \A i \in 1..Len(code) : \A j \in (i + 1)..Len(code) :
            ( /\ loads_variable(j)
              /\ literal_declaration(i, code[j].arg, code[j + 1].arg)
              /\ still_declared(i, j, code[j].arg, code[j + 1].arg)
              /\ never_skipped(i)
              /\ pc = position_of(code, j + 2) ) =>
                /\ Len(stack) >= code[j + 1].arg
                /\ SubSeq(stack, Len(stack) - code[j + 1].arg + 1, Len(stack))
                       = initialiser_bytes(i)

\* ------------------------------------------------------------------------
\* Function templates: compile_function started from the uses of a name.
\* Every function has its own variable manager; of its scopes the model
\* keeps the kinds.
MaxFunctions == 3       \* functions of the program, $main included
MaxOps == 2             \* ops emitted over all functions
MaxLoops == 1           \* loops open at once in one function

\* function_templates: a template of the global namespace and a member
\* template of the struct S, each with one template parameter T
FunctionTemplates == { "f", "S::m" }

\* the template arguments a use is written with
TemplateArgs == { "i32", "bool", "T" }

\* make_type: the current function's template map first, then the
\* fundamentals; "" when the name is no type
make_type(templates, name) ==
    IF name = "T" THEN templates ELSE name

fn_name(function_name, template_arg) == function_name \o "!(" \o template_arg \o ")"

InstantiationNames ==
    { fn_name(t, a) : t \in FunctionTemplates, a \in TemplateArgs \ {"T"} }

Function(name, templates) ==
    [name |-> name, code |-> << >>, templates |-> templates, d_scopes |-> <<"simple">>]

Use(kind, name, typed, id) == [kind |-> kind, name |-> name, typed |-> typed, id |-> id]

\* functions_by_name.emplace
emplace_nothing(by_name, full_name, id) == by_name

emplace(by_name, full_name, id) ==
    IF full_name \in DOMAIN by_name THEN by_name
    ELSE [n \in DOMAIN by_name \cup {full_name} |-> IF n = full_name THEN id ELSE by_name[n]]

\* get_function: the id registered for the name, -1 for nullopt
get_function(by_name, full_name) ==
    IF full_name \in DOMAIN by_name THEN by_name[full_name] ELSE -1

current_id == current_function[Len(current_function)]

in_function == Len(current_function) > 1

\* variables(com).in_loop()
fn_in_loop_of_any(fns, id) ==
    \E f \in 1..Len(fns) : \E i \in 1..Len(fns[f].d_scopes) : fns[f].d_scopes[i] = "loop"

fn_in_loop(fns, id) == \E i \in 1..Len(fns[id + 1].d_scopes) : fns[id + 1].d_scopes[i] = "loop"

RECURSIVE ops_total(_, _)
ops_total(fns, n) == IF n = 0 THEN 0 ELSE Len(fns[n].code) + ops_total(fns, n - 1)

FnsIdleRest ==
    /\ ConvIdle /\ CallIdle /\ VmIdle /\ ProgIdle /\ RegIdle /\ RomIdle /\ ForIdle /\ ArrIdle
    /\ scopes = << >>
    /\ code = << >>
    /\ last_call = Call("none", "", 0, TRUE)

\* compile: $main is function 0
FnsInit ==
    /\ functions = <<Function("$main", "")>>
    /\ functions_by_name = [n \in {} |-> 0]
    /\ current_function = <<0>>
    /\ compiled = [n \in InstantiationNames |-> 0]
    /\ waiting = << >>
    /\ last_use = NoUse
    /\ status = "compiling"
    /\ last_stmt = NoStmt
    /\ FnsIdleRest

notFns == <<scopes, code, last_call, convVars, callVars, vmVars, progVars, regVars, romVars, forVars, arrVars>>

\* the functions with an op appended to the code of function id
with_op(fns, id, o) == [fns EXCEPT ![id + 1].code = Append(@, o)]

FnsError(kind) ==
    /\ status' = "error"
    /\ last_stmt' = Stmt(kind, << >>, << >>, << >>, FALSE)
    /\ UNCHANGED <<tmplVars, notFns>>

fns_compiling == status = "compiling" /\ current_function # << >>

\* the use is complete: push_u64 with the id of the function, which
\* type_of_expr takes off the code again
UseDone(fns, use) ==
    /\ functions' = IF use.typed THEN fns
                    ELSE with_op(fns, current_function[Len(current_function)],
                                 Op("push_u64", use.id))
    /\ last_use' = use

\* push_expr(node_name_expr) 915-925, 954-958 and push_expr(node_field_expr)
\* 986-1005 on a name of a function template, typed (through type_of_expr)
\* or compiled for real.
UseTemplate ==
    /\ fns_compiling
    /\ ops_total(functions, Len(functions)) < MaxOps
    /\ \E template \in FunctionTemplates, arg \in TemplateArgs, typed \in BOOLEAN :
         LET resolved == make_type(functions[current_id + 1].templates, arg)
             full_name == fn_name(template, resolved)
             kind == IF template = "f" THEN "name" ELSE "field"
             found == get_function(functions_by_name, full_name)
             id == Len(functions)
         IN  IF resolved = ""
             THEN FnsError("use")
             ELSE IF found # -1
             THEN /\ UseDone(functions, Use(kind, full_name, typed, found))
                  /\ last_stmt' = Stmt("use", << >>, << >>, << >>, TRUE)
                  /\ UNCHANGED <<functions_by_name, current_function, compiled, waiting,
                                 status, notFns>>
             ELSE /\ Len(functions) < MaxFunctions
                  /\ functions' = Append(functions, Function(full_name, resolved))
                  /\ current_function' = Append(current_function, id)
                  /\ functions_by_name' = emplace(functions_by_name, full_name, id)
                  /\ compiled' = [compiled EXCEPT ![full_name] = @ + 1]
                  /\ waiting' = Append(waiting, Use(kind, full_name, typed, id))
                  /\ last_stmt' = Stmt("compile_function", << >>, << >>, << >>, TRUE)
                  /\ UNCHANGED <<last_use, status, notFns>>

\* compile_function 385-394: the body is compiled; implicit return, the
\* scope is popped and the use that started the compilation completes.
EndFunction ==
    /\ fns_compiling
    /\ in_function
    /\ functions[current_id + 1].d_scopes = <<"simple">>
    /\ LET returned == with_op(functions, current_id, Op("ret", 1))
           use == waiting[Len(waiting)]
       IN  /\ current_function' = SubSeq(current_function, 1, Len(current_function) - 1)
           /\ waiting' = SubSeq(waiting, 1, Len(waiting) - 1)
           /\ functions' = IF use.typed THEN returned
                           ELSE with_op(returned, current_function'[Len(current_function')],
                                        Op("push_u64", use.id))
           /\ last_use' = use
    /\ last_stmt' = Stmt("end_function", << >>, << >>, << >>, TRUE)
    /\ UNCHANGED <<functions_by_name, compiled, status, notFns>>

\* push_loop 444-448: a loop scope in the current function's variables
BeginLoop ==
    /\ fns_compiling
    /\ Len(functions[current_id + 1].d_scopes) <= MaxLoops
    /\ functions' = [functions EXCEPT ![current_id + 1].d_scopes = Append(@, "loop")]
    /\ last_stmt' = Stmt("loop", << >>, << >>, << >>, TRUE)
    /\ UNCHANGED <<functions_by_name, current_function, compiled, waiting, last_use,
                   status, notFns>>

\* push_loop 449-464: back-jump, the loop scope is popped
EndLoop ==
    /\ fns_compiling
    /\ Len(functions[current_id + 1].d_scopes) > 1
    /\ ops_total(functions, Len(functions)) < MaxOps
    /\ functions' = [with_op(functions, current_id, Op("jump", 0))
                        EXCEPT ![current_id + 1].d_scopes = SubSeq(@, 1, Len(@) - 1)]
    /\ last_stmt' = Stmt("end_loop", << >>, << >>, << >>, TRUE)
    /\ UNCHANGED <<functions_by_name, current_function, compiled, waiting, last_use,
                   status, notFns>>

\* push_break 300-307 and push_stmt(node_continue_stmt) 1269-1276
BreakOrContinue ==
    /\ fns_compiling
    /\ ops_total(functions, Len(functions)) < MaxOps
    /\ \E kind \in {"break", "continue"} :
         IF ~fn_in_loop(functions, current_id)
         THEN FnsError(kind)
         ELSE /\ functions' = with_op(functions, current_id, Op("jump", 0))
              /\ last_stmt' = Stmt(kind, << >>, << >>, << >>, TRUE)
              /\ UNCHANGED <<functions_by_name, current_function, compiled, waiting,
                             last_use, status, notFns>>

\* push_stmt(node_return_stmt) 1330-1339, returning null
ReturnStmt ==
    /\ fns_compiling
    /\ ops_total(functions, Len(functions)) < MaxOps
    /\ IF ~in_function
       THEN FnsError("return")
       ELSE /\ functions' = with_op(functions, current_id, Op("ret", 1))
            /\ last_stmt' = Stmt("return", << >>, << >>, << >>, TRUE)
            /\ UNCHANGED <<functions_by_name, current_function, compiled, waiting,
                           last_use, status, notFns>>

FnsNext ==
    \/ UseTemplate
    \/ EndFunction
    \/ BeginLoop
    \/ EndLoop
    \/ BreakOrContinue
    \/ ReturnStmt

SpecFns == FnsInit /\ [][FnsNext]_vars

\* the ids the code of a function pushes
ids_pushed(fn) == { fn.code[i].arg : i \in { j \in 1..Len(fn.code) : fn.code[j].op = "push_u64" } }

\* C11: over every sequence of typed, compiled and recursive uses of the
\* function templates, the body of an instantiation name has been compiled
\* once if the name is registered and never otherwise; it is compiled at the
\* step of the first use of the name; the id registered for a name never
\* changes and names one function of that name; and every completed use
\* carries that id.
C11_CompiledOncePerInstantiation ==
    /\ [](\A n \in InstantiationNames :
            /\ compiled[n] = IF n \in DOMAIN functions_by_name THEN 1 ELSE 0
            /\ n \in DOMAIN functions_by_name =>
                 /\ functions[functions_by_name[n] + 1].name = n
                 /\ Cardinality({ i \in 1..Len(functions) : functions[i].name = n }) = 1)
    /\ [](last_use # NoUse =>
            /\ last_use.name \in DOMAIN functions_by_name
            /\ last_use.id = functions_by_name[last_use.name])
    /\ [][/\ \A n \in DOMAIN functions_by_name :
                /\ n \in DOMAIN functions_by_name'
                /\ functions_by_name'[n] = functions_by_name[n]
          /\ \A n \in InstantiationNames :
                compiled'[n] # compiled[n] =>
                    /\ n \notin DOMAIN functions_by_name
                    /\ \A i \in 1..Len(functions) : functions[i].name # n
                    /\ Len(waiting') = Len(waiting) + 1
                    /\ waiting'[Len(waiting')].name = n
                    /\ waiting'[Len(waiting')].id = functions_by_name'[n]
          /\ \A i \in 1..Len(functions) :
                Len(functions'[i].code) > Len(functions[i].code) =>
                    LET o == functions'[i].code[Len(functions'[i].code)]
                    IN  o.op = "push_u64" =>
                            /\ o.arg = last_use'.id
                            /\ o.arg = functions_by_name'[last_use'.name]
         ]_vars

\* an instantiation first used through type_of_expr, used again inside its
\* own body, and used for real after its compilation
C11_Witness ==
    /\ status = "compiling"
    /\ current_function = <<0>>
    /\ \E n \in InstantiationNames :
         /\ compiled[n] = 1
         /\ functions_by_name[n] \in ids_pushed(functions[functions_by_name[n] + 1])
         /\ functions_by_name[n] \in ids_pushed(functions[1])
         /\ last_use = Use("name", n, FALSE, functions_by_name[n])

\* C18: a break or continue compiles, to a jump in the code of the function
\* being compiled, exactly when a loop scope is open in that function's own
\* variables, whatever loops are open in the functions whose compilation
\* is waiting; a return compiles, to a ret, exactly when the compiler is
\* inside a function; otherwise the step ends in the fatal error and emits
\* nothing.
C18_LoopAndFunctionOnly ==
    [][LET id == current_function[Len(current_function)]
           loop_open == \E i \in 1..Len(functions[id + 1].d_scopes) :
                            functions[id + 1].d_scopes[i] = "loop"
           allowed == IF last_stmt'.kind = "return" THEN Len(current_function) > 1
                      ELSE loop_open
       IN  last_stmt'.kind \in {"break", "continue", "return"} =>
             /\ last_stmt'.ok = allowed
             /\ allowed =>
                  /\ status' = "compiling"
                  /\ functions' = [functions EXCEPT ![id + 1].code =
                        Append(@, IF last_stmt'.kind = "return" THEN Op("ret", 1)
                                  ELSE Op("jump", 0))]
             /\ ~allowed => status' = "error" /\ functions' = functions
      ]_vars

\* a break refused in an instantiation whose compilation a use inside a
\* loop of the caller started
C18_Witness ==
    /\ status = "error"
    /\ last_stmt.kind = "break"
    /\ Len(current_function) = 2
    /\ functions[1].d_scopes = <<"simple", "loop">>
    /\ functions[current_function[2] + 1].d_scopes = <<"simple">>

\* ------------------------------------------------------------------------
\* SpecFor: a function fn f(c: bool, a: T) whose body may hold one for
\* statement over a, or over an array literal, is compiled and run.
MaxElems == 2           \* elements of the iterable
HeapBase == 1000        \* the address a span argument points at

ForIterTypes ==
    { add_array(i32_type, n) : n \in 0..MaxElems } \cup { add_span(i32_type) }

\* node_for_stmt::iter
ForIters == { <<Node("name", "a")>>, <<Node("literal", "i32"), Node("repeat_array", "")>> }

ForInit ==
    /\ \E t \in ForIterTypes :
         /\ iterable = t
         /\ scopes = declare_var(declare_var(new_scope(<< >>), "c", bool_type).scopes,
                                 "a", t).scopes
         /\ last_call = Call("declare", "a", size_of(t), TRUE)
    /\ code = << >>
    /\ status = "compiling"
    /\ last_stmt = NoStmt
    /\ open = <<Open("function")>>
    /\ stmts = 0
    /\ boundaries = { <<0, next_location(scopes)>> }
    /\ loops = {}
    /\ pc = 0
    /\ stack = << >>
    /\ stale = << >>
    /\ for_info = NoFor
    /\ entered = << >>
    /\ ConvIdle /\ CallIdle /\ VmIdle /\ TmplIdle /\ RegIdle /\ RomIdle /\ ArrIdle

\* load_variable 158-163 and save_variable 165-169
load_variable(scs, name) ==
    LET addr == push_var_addr(scs, name)
    IN  addr.ops \o <<Op("load", size_of(addr.type))>>

save_variable(scs, name) ==
    LET addr == push_var_addr(scs, name)
    IN  addr.ops \o <<Op("save", size_of(addr.type))>>

array_length(t) == t[1].count

\* push_stmt(node_for_stmt) 1145-1208: the scopes and the hidden variables
\* declared before the body
for_scopes(scs, iter) ==
    LET outer == new_scope(scs)
        typed == type_of_expr(outer, iter)
        rvalue == ~is_lvalue_expr(iter)
        temporary == IF rvalue THEN declare_var(outer, "#:iter", typed.type)
                     ELSE [ok |-> TRUE, scopes |-> outer]
        idx == declare_var(temporary.scopes, "#:idx", u64_type)
        size == declare_var(idx.scopes, "#:size", u64_type)
        body_scope == new_scope(new_loop_scope(size.scopes))
    IN  [ok |-> /\ typed.ok
                /\ is_array(typed.type) \/ (is_span(typed.type) /\ ~rvalue)
                /\ temporary.ok /\ idx.ok /\ size.ok,
         iter_type |-> typed.type,
         rvalue |-> rvalue,
         outer |-> outer,
         idx |-> idx.scopes,
         body |-> body_scope]

\* 1159-1176: the temporary, idx and size are pushed
for_header(fs, iter) ==
    (IF fs.rvalue THEN push_expr(fs.outer, "val", iter).ops ELSE << >>)
        \o <<Op("push_u64", 0)>>
        \o IF is_array(fs.iter_type) THEN <<Op("push_u64", array_length(fs.iter_type))>>
           ELSE push_expr(fs.idx, "ptr", iter).ops
                  \o <<Op("push_u64", PtrSize), Op("u64_add", 0),
                       Op("load", size_of(u64_type))>>

\* 1179-1183: if idx == size, up to the jump_if_false
for_test(fs) ==
    load_variable(fs.body, "#:idx") \o load_variable(fs.body, "#:size")
        \o <<Op("u64_eq", 0), Op("jump_if_false", 0)>>

\* 1187-1206: name := the address of iter[idx]; idx = idx + 1
for_element(fs, iter) ==
    (IF fs.rvalue THEN push_var_addr(fs.body, "#:iter").ops
     ELSE push_expr(fs.body, "ptr", iter).ops
            \o IF is_span(fs.iter_type) THEN <<Op("load", PtrSize)>> ELSE << >>)
        \o load_variable(fs.body, "#:idx")
        \o <<Op("push_u64", size_of(inner_type(fs.iter_type))), Op("u64_mul", 0),
             Op("u64_add", 0)>>
        \o load_variable(fs.body, "#:idx")
        \o <<Op("push_u64", 1), Op("u64_add", 0)>>
        \o save_variable(fs.body, "#:idx")

\* the for statement is compiled up to its body
ForOpened(fs, header, broken, new_code, var_scopes) ==
    /\ scopes' = var_scopes
    /\ code' = new_code
    /\ open' = Append(open, [Open("for") EXCEPT !.begin_pos = code_size(header),
                                                !.jump_pos = Len(new_code)])
    /\ stmts' = stmts + 1
    /\ boundaries' = boundaries \cup { <<code_size(new_code), next_location(var_scopes)>> }
    /\ for_info' =
          [header_pos |-> code_size(code),
           entry_pos |-> code_size(SubSeq(new_code, 1, Len(new_code) - 1)),
           end_pos |-> -1,
           var_location |-> find(var_scopes, "e").var.location,
           iter_location |-> find(var_scopes, IF fs.rvalue THEN "#:iter" ELSE "a").var.location,
           iter_type |-> fs.iter_type,
           clean |-> FALSE]
    /\ UNCHANGED <<status, last_call, last_stmt, loops, pc, stack, stale, iterable,
                   entered, convVars, callVars, vmVars, tmplVars, regVars, romVars, arrVars>>

\* push_stmt(node_for_stmt) 1145-1208, up to the body
CompileFor ==
    /\ status = "compiling"
    /\ open = <<Open("function")>>
    /\ for_info = NoFor
    /\ \E iter \in ForIters : \E fs \in { for_scopes(scopes, iter) } :
       \E header \in { code \o for_header(fs, iter) } :
       \E tested \in { header \o for_test(fs) } :
       \E broken \in { tested \o handle_loop_exit(fs.body) \o <<Op("jump", 0)>> } :
       \E var \in { declare_var(with_break(fs.body, Len(broken)), "e",
                                add_ptr(inner_type(fs.iter_type))) } :
         IF ~fs.ok \/ ~var.ok
         THEN ProgError
         ELSE ForOpened(fs, header, broken,
                        write_target(broken, Len(tested), code_size(broken))
                            \o for_element(fs, iter),
                        var.scopes)

\* push_loop 449-464 after the body of the for statement, then 1210
CompileEndFor ==
    /\ status = "compiling"
    /\ open # << >>
    /\ open[Len(open)].kind = "for"
    /\ open[Len(open)].body_done
    /\ LET begin_pos == open[Len(open)].begin_pos
           body_scope == pop_scope(scopes)
           looped == code \o body_scope.ops \o <<Op("jump", begin_pos)>>
           control_flow == get_loop_info(body_scope.scopes)
           with_breaks == write_targets(looped, control_flow.breaks, code_size(looped))
           with_continues == write_targets(with_breaks, control_flow.continues, begin_pos)
           loop_scope == pop_scope(body_scope.scopes)
           outer == pop_scope(loop_scope.scopes)
           new_code == with_continues \o loop_scope.ops \o outer.ops
       IN  /\ scopes' = outer.scopes
           /\ code' = new_code
           /\ open' = complete(enclosing(open), FALSE)
           /\ boundaries' = boundaries \cup
                 { <<code_size(new_code), next_location(outer.scopes)>> }
           /\ loops' = loops \cup { Loop(begin_pos, code_size(looped), control_flow.breaks,
                                          control_flow.continues) }
           /\ for_info' =
                 [for_info EXCEPT
                    !.end_pos = code_size(looped),
                    !.clean = /\ Len(control_flow.breaks) = 1
                              /\ \A i \in (open[Len(open)].jump_pos + 1)..Len(code) :
                                    code[i].op # "ret"]
    /\ UNCHANGED <<status, last_call, last_stmt, stmts, pc, stack, stale, iterable, entered,
                   convVars, callVars, vmVars, tmplVars, regVars, romVars, arrVars>>

WordLimit == ByteRange * ByteRange * ByteRange   \* the words the run computes with stay below it

zeros(n) == [i \in 1..n |-> 0]

\* the call of f: c and a are the arguments at the base of the frame; a span
\* argument is the pointer to its data and its length
CallWithIterable ==
    /\ status = "compiled"
    /\ iterable # << >>
    /\ \E c \in {0, 1}, n \in 0..MaxElems :
         /\ is_span(iterable) \/ n = 0
         /\ stale' = << >>
         /\ stack' = <<c>> \o IF is_span(iterable) THEN bytes_of(HeapBase) \o bytes_of(n)
                              ELSE zeros(size_of(iterable))
    /\ pc' = 0
    /\ status' = "running"
    /\ UNCHANGED <<scopes, code, last_call, last_stmt, open, stmts, boundaries, loops,
                   convVars, callVars, vmVars, laterVars>>

top_word(bytes, k) ==
    IF Len(bytes) >= k * WordSize THEN word_at(bytes, Len(bytes) - k * WordSize) ELSE -1

ExecU64 ==
    /\ executing({"u64_add", "u64_mul", "u64_eq"})
    /\ LET lhs == top_word(stack, 2)
           rhs == top_word(stack, 1)
           rest == popped_bytes(2 * WordSize)
       IN  CASE Len(stack) < 2 * WordSize -> Stop("fault")
             [] Len(stack) >= 2 * WordSize /\ current.op = "u64_eq" ->
                    Step(next_pc,
                         rest \o <<IF SubSeq(stack, Len(rest) + 1, Len(rest) + WordSize)
                                       = SubSeq(stack, Len(rest) + WordSize + 1, Len(stack))
                                   THEN 1 ELSE 0>>)
             [] OTHER ->
                    IF lhs < 0 \/ rhs < 0 \/ lhs * rhs >= WordLimit
                    THEN Stop("out_of_range")
                    ELSE Step(next_pc,
                              rest \o IF current.op = "u64_add" THEN bytes_of(lhs + rhs)
                                      ELSE bytes_of(lhs * rhs))

\* the memory with the bytes of value written at ptr
written(image, ptr, value) ==
    [i \in 1..Len(image) |->
        IF i > ptr /\ i <= ptr + Len(value) THEN value[i - ptr] ELSE image[i]]

\* save pops the pointer and the value and writes the value at the pointer,
\* above the top of the stack too
ExecSave ==
    /\ executing({"save"})
    /\ LET ptr == top_word(stack, 1)
           rest == popped_bytes(PtrSize + current.arg)
           value == SubSeq(stack, Len(rest) + 1, Len(rest) + current.arg)
       IN  IF Len(stack) >= PtrSize + current.arg /\ ptr >= 0
                  /\ ptr + current.arg <= Len(memory_image)
           THEN StepImage(next_pc,
                          SubSeq(written(memory_image, ptr, value), 1, Len(rest)),
                          written(memory_image, ptr, value))
           ELSE Stop("fault")

ForNext ==
    \/ CompileFor
    \/ CompileEndFor
    \/ CompileDeclaration
    \/ CompileExpression
    \/ CompileBlock
    \/ CompileEndBlock
    \/ CompileIf
    \/ CompileEndIf
    \/ CompileBreak
    \/ CompileContinue
    \/ CompileFunctionEnd
    \/ CallWithIterable
    \/ ExecPush
    \/ ExecPushPtrLocal
    \/ ExecLoad
    \/ ExecPop
    \/ ExecJump
    \/ ExecJumpIfFalse
    \/ ExecRet
    \/ ExecU64
    \/ ExecSave

SpecFor == ForInit /\ [][ForNext]_vars

\* the length of the iterable of the for statement and the address of its
\* first element: of an array its count and its location in the frame, of
\* the span argument its length word and its data pointer
for_length ==
    IF is_array(for_info.iter_type) THEN array_length(for_info.iter_type)
    ELSE word_at(memory_image, for_info.iter_location + PtrSize)

for_first ==
    IF is_array(for_info.iter_type) THEN for_info.iter_location
    ELSE word_at(memory_image, for_info.iter_location)

\* C12: while a function whose for statement has a body without a break
\* or a return runs, the body has been entered at most n times, the k-th
\* time with x holding the address of element k - 1 of the iterable, and
\* when the run is just past the loop it has been entered exactly n times.
C12_ForEntersEachElement ==
    (status \in {"running", "returned", "fault", "out_of_range"} /\ for_info.clean) =>
        /\ Len(entered) <= for_length
        /\ \A k \in 1..Len(entered) :
               entered[k] = for_first + (k - 1) * size_of(inner_type(for_info.iter_type))
        /\ (status = "running" /\ pc = for_info.end_pos) => Len(entered) = for_length


\* ------------------------------------------------------------------------
\* Assignment to an element of an array, and the run of its code.

\* a statement of the function can start
arr_statement ==
    /\ status = "compiling"
    /\ open # << >>
    /\ open[Len(open)].kind = "block" \/ ~open[Len(open)].body_done

ArrEmit(new_scopes, new_code, new_info) ==
    /\ scopes' = new_scopes
    /\ code' = new_code
    /\ open' = complete(open, FALSE)
    /\ stmts' = stmts + 1
    /\ boundaries' = boundaries \cup { <<code_size(new_code), next_location(new_scopes)>> }
    /\ arr_info' = new_info
    /\ UNCHANGED <<status, last_call, last_stmt, loops, pc, stack, stale,
                   convVars, callVars, vmVars, tmplVars, regVars, romVars, forVars,
                   fn_body, fn_return, fn_end>>

\* push_stmt(node_declaration_stmt) of `var a := [1i32; n]`
CompileArrayDeclaration ==
    /\ arr_statement
    /\ arr_info = NoArr
    /\ \E n \in 1..MaxElems :
         \E declared \in { declare_var(scopes, "a", add_array(i32_type, n)) } :
             /\ declared.ok
             /\ ArrEmit(declared.scopes,
                        code \o [k \in 1..n |-> Op("push_i32", 1)],
                        [arr_info EXCEPT !.location = find(declared.scopes, "a").var.location,
                                         !.count = n])

\* push_expr(node_subscript_expr) of a[index], index a u64 literal
subscript_expr(scs, ct, index) ==
    LET e == push_expr(scs, ct, <<Node("name", "a"), Node("subscript", "")>>)
    IN  IF e.ok THEN [e EXCEPT !.ops = [@ EXCEPT ![2] = Op("push_u64", index)]] ELSE e

\* push_stmt(node_assignment_stmt) of `a[index] = value`
CompileSubscriptAssignment ==
    /\ arr_statement
    /\ arr_info.location >= 0
    /\ arr_info.save_pos < 0
    /\ \E index \in 0..(arr_info.count - 1) : \E value \in 2..3 :
         \E lhs_type \in { type_of_expr(scopes, <<Node("name", "a"), Node("subscript", "")>>) } :
         \E copy \in { push_copy_typechecked(i32_type, lhs_type.type) } :
         \E lhs \in { subscript_expr(scopes, "ptr", index) } :
         \E body \in { code \o <<Op("push_i32", value)>> \o copy.extra \o lhs.ops } :
             /\ lhs_type.ok /\ assignable(lhs_type.type) /\ copy.ok /\ lhs.ok
             /\ ArrEmit(scopes, body \o <<Op("save", size_of(lhs.type))>>,
                        [arr_info EXCEPT !.index = index, !.value = value,
                                         !.save_pos = code_size(body)])

\* push_stmt(node_expression_stmt) of `a[index];`
CompileSubscriptRead ==
    /\ arr_statement
    /\ arr_info.save_pos >= 0
    /\ arr_info.read_pos < 0
    /\ \E index \in 0..(arr_info.count - 1) :
         \E typed \in { subscript_expr(scopes, "val", index) } :
             /\ typed.ok
             /\ ArrEmit(scopes, code \o typed.ops \o <<Op("pop", size_of(typed.type))>>,
                        [arr_info EXCEPT !.read_index = index,
                                         !.read_pos = code_size(code \o typed.ops)])

\* the block that is the body of the function
CompileBody == Len(open) = 1 /\ CompileBlock

\* an if statement with a declaration as the first statement of the body
CompileFirstIf == stmts = 0 /\ CompileIfDeclaration

ArrNext ==
    \/ CompileBody
    \/ CompileEndBlock
    \/ CompileFirstIf
    \/ CompileArrayDeclaration
    \/ CompileSubscriptAssignment
    \/ CompileSubscriptRead
    \/ CompileFunctionEnd
    \/ CallFunction
    \/ ExecPush
    \/ ExecPushPtrLocal
    \/ ExecLoad
    \/ ExecPop
    \/ ExecJumpIfFalse
    \/ ExecU64
    \/ ExecSave
    \/ ExecRet

SpecArr == ProgInit /\ [][ArrNext]_vars

\* C14: the save of `a[i] = v` leaves v in element i of a and changes no
\* other byte of the memory, so no other element and no byte outside the
\* array; and the read of a[j] that follows pushes v for j = i and the
\* element's old value for every other j.
C14_AssignsOneElement ==
    /\ [][(status = "running" /\ pc = arr_info.save_pos /\ pc' # pc) =>
             memory_image' = written(memory_image,
                                     arr_info.location + arr_info.index * size_of(i32_type),
                                     bytes_from(arr_info.value, size_of(i32_type)))]_vars
    /\ [](status = "running" /\ arr_info.read_pos >= 0 /\ pc = arr_info.read_pos =>
             /\ Len(stack) >= size_of(i32_type)
             /\ SubSeq(stack, Len(stack) - size_of(i32_type) + 1, Len(stack))
                    = bytes_from(IF arr_info.read_index = arr_info.index
                                 THEN arr_info.value ELSE 1, size_of(i32_type)))

\* ------------------------------------------------------------------------
\* The type manager (compilation/type_manager.hpp) and the struct
\* declarations, field offsets and constructor calls that use it.
MaxFields == 2          \* data fields of a struct

ClassNames == {"A", "B"}

FieldNames == {"x", "y"}

\* resolve_type: the types a field of the next struct can have
FieldTypes(classes) ==
    {i32_type} \cup { struct_type(n) : n \in DOMAIN classes }

\* node_struct_stmt::fields
FieldLists(classes) ==
    { fs \in UNION { [1..k -> { Field(n, t) : n \in FieldNames, t \in FieldTypes(classes) }] :
                        k \in 0..MaxFields } :
        \A i, j \in 1..Len(fs) : i # j => fs[i].name # fs[j].name }

\* type_manager::contains
contains(classes, name) == name \in DOMAIN classes

\* an add that replaces the fields of a registered name
add_replacing(classes, name, fields) ==
    [ok |-> TRUE,
     classes |-> [n \in DOMAIN classes \cup {name} |-> IF n = name THEN fields ELSE classes[n]]]

\* type_manager::add
add(classes, name, fields) ==
    IF contains(classes, name) THEN [ok |-> FALSE, classes |-> classes]
    ELSE [ok |-> TRUE,
          classes |-> [n \in DOMAIN classes \cup {name} |->
                          IF n = name THEN fields ELSE classes[n]]]

\* type_manager::fields_of
class_fields(classes, t) ==
    IF t[1].kind = "struct" /\ contains(classes, t[1].name) THEN classes[t[1].name] ELSE << >>

RECURSIVE class_size(_, _)
RECURSIVE class_sum(_, _, _)

\* a size that is the plain sum of the field sizes
class_size_unfloored(classes, t) ==
    IF t[1].kind = "struct"
    THEN class_sum(classes, class_fields(classes, t), Len(class_fields(classes, t)))
    ELSE size_of(t)

\* type_manager::size_of
class_size(classes, t) ==
    IF t[1].kind = "struct"
    THEN IF class_fields(classes, t) = << >> THEN 1
         ELSE class_sum(classes, class_fields(classes, t), Len(class_fields(classes, t)))
    ELSE size_of(t)

\* the sizes of the first n fields
class_sum(classes, fields, n) ==
    IF n = 0 THEN 0
    ELSE class_sum(classes, fields, n - 1) + class_size(classes, fields[n].type)

\* a scan that starts the count at the size of the first field
RECURSIVE scan_counting_self(_, _, _, _, _)
scan_counting_self(classes, fields, field_name, i, offset) ==
    CASE i > Len(fields) -> [ok |-> FALSE, offset |-> 0]
      [] i <= Len(fields) /\ fields[i].name = field_name ->
            [ok |-> TRUE, offset |-> offset + class_size(classes, fields[i].type)]
      [] OTHER -> scan_counting_self(classes, fields, field_name, i + 1,
                                     offset + class_size(classes, fields[i].type))

\* push_field_offset: the loop over fields_of(type)
RECURSIVE scan_fields(_, _, _, _, _)
scan_fields(classes, fields, field_name, i, offset) ==
    CASE i > Len(fields) -> [ok |-> FALSE, offset |-> 0]
      [] i <= Len(fields) /\ fields[i].name = field_name -> [ok |-> TRUE, offset |-> offset]
      [] OTHER -> scan_fields(classes, fields, field_name, i + 1,
                              offset + class_size(classes, fields[i].type))

Answer(call, name, fields, ok, offset, ops, fatal) ==
    [call |-> call, name |-> name, fields |-> fields, ok |-> ok, offset |-> offset,
     ops |-> ops, fatal |-> fatal]

RegInit == ConvIdle /\ CallIdle /\ CompIdle /\ VmIdle /\ ProgIdle /\ LaterIdle

notReg == <<baseVars, tmplVars, forVars, arrVars, romVars>>

\* type_manager::add called with a name and its fields
TypeAdd ==
    /\ ~last_add.fatal
    /\ \E name \in ClassNames : \E fields \in FieldLists(d_classes) :
         \E added \in { add(d_classes, name, fields) } :
             /\ d_classes' = added.classes
             /\ last_add' = Answer("add", name, fields, added.ok, 0, << >>, FALSE)
    /\ UNCHANGED notReg

\* push_stmt(node_struct_stmt) of a struct without templates and functions
StructStmt ==
    /\ ~last_add.fatal
    /\ \E name \in ClassNames : \E fields \in FieldLists(d_classes) :
         IF contains(d_classes, name)
         THEN /\ last_add' = Answer("struct", name, fields, FALSE, 0, << >>, TRUE)
              /\ UNCHANGED d_classes
         ELSE /\ d_classes' = add(d_classes, name, fields).classes
              /\ last_add' = Answer("struct", name, fields, TRUE, 0, << >>, FALSE)
    /\ UNCHANGED notReg

\* type_manager::contains and type_manager::fields_of asked of a name
TypeQuery ==
    /\ ~last_add.fatal
    /\ \E name \in ClassNames :
         last_add' = Answer("query", name, class_fields(d_classes, struct_type(name)),
                            contains(d_classes, name), 0, << >>, FALSE)
    /\ UNCHANGED <<d_classes, notReg>>

\* push_field_offset of a field name in a registered struct
PushFieldOffset ==
    /\ ~last_add.fatal
    /\ \E name \in DOMAIN d_classes : \E field_name \in FieldNames :
         \E found \in { scan_fields(d_classes, class_fields(d_classes, struct_type(name)),
                                     field_name, 1, 0) } :
             last_add' = Answer("push_field_offset", field_name,
                                class_fields(d_classes, struct_type(name)), found.ok,
                                found.offset,
                                IF found.ok THEN <<Op("push_u64", found.offset)>> ELSE << >>,
                                ~found.ok)
    /\ UNCHANGED <<d_classes, notReg>>

\* push_expr(node_call_expr) of a constructor call without arguments
Construct ==
    /\ ~last_add.fatal
    /\ \E name \in DOMAIN d_classes :
         last_add' = Answer("construct", name, class_fields(d_classes, struct_type(name)),
                            TRUE, 0,
                            <<Op("push", class_size(d_classes, struct_type(name)))>>, FALSE)
    /\ UNCHANGED <<d_classes, notReg>>

RegNext ==
    \/ TypeAdd
    \/ StructStmt
    \/ TypeQuery
    \/ PushFieldOffset
    \/ Construct

SpecReg == RegInit /\ [][RegNext]_vars

C16_EmptyStructHasOneByte ==
    /\ \A n \in DOMAIN d_classes :
           d_classes[n] = << >> => class_size(d_classes, struct_type(n)) >= 1
    /\ (last_add.call = "construct" /\ last_add.fields = << >>) =>
           last_add.ops = <<Op("push", 1)>>

C16_Witness ==
    /\ last_add.call = "construct"
    /\ last_add.fields = << >>
    /\ contains(d_classes, last_add.name)
    /\ d_classes[last_add.name] = << >>

\* C17: a step of the type manager removes no registered name and changes
\* the field list of none, and an add of a name that is registered answers
\* that it failed.
C17_RegistryAppendOnly ==
    [][ /\ \A n \in DOMAIN d_classes :
              /\ contains(d_classes', n)
              /\ d_classes'[n] = d_classes[n]
        /\ (last_add'.call = "add" /\ last_add' # last_add
                /\ contains(d_classes, last_add'.name)) => ~last_add'.ok ]_vars

C17_Witness ==
    /\ last_add.call = "add"
    /\ ~last_add.ok
    /\ contains(d_classes, last_add.name)
    /\ d_classes[last_add.name] # last_add.fields

\* ------------------------------------------------------------------------
\* The end of compile_function: ends_in_return applied to the body.
MaxNest == 2            \* statements nested in the body
MaxSeq == 2             \* statements of a sequence

LeafStmts == { Tree("return", << >>), Tree("expression", << >>) }

\* node_stmt: sequences, if statements with and without else, loops
RECURSIVE StmtsOfNest(_)
StmtsOfNest(d) ==
    IF d = 0 THEN LeafStmts
    ELSE LET inner == StmtsOfNest(d - 1)
         IN  inner
             \cup { Tree("sequence", sq) : sq \in UNION { [1..k -> inner] : k \in 0..MaxSeq } }
             \cup { Tree("if", <<b>>) : b \in inner }
             \cup { Tree("if", <<b, e>>) : b \in inner, e \in inner }
             \cup { Tree(k, <<b>>) : k \in {"loop", "while"}, b \in inner }

ReturnTypes == { null_type, i32_type }

\* an ends_in_return that takes an if without else by its body
RECURSIVE ends_in_return_without_else(_)
ends_in_return_without_else(node) ==
    CASE node.kind = "sequence" ->
            IF node.sub = << >> THEN FALSE
            ELSE ends_in_return_without_else(node.sub[Len(node.sub)])
      [] node.kind = "if" ->
            \A i \in 1..Len(node.sub) : ends_in_return_without_else(node.sub[i])
      [] node.kind = "return" -> TRUE
      [] OTHER -> FALSE

RECURSIVE ends_in_return(_)
ends_in_return(node) ==
    CASE node.kind = "sequence" ->
            IF node.sub = << >> THEN FALSE ELSE ends_in_return(node.sub[Len(node.sub)])
      [] node.kind = "if" ->
            IF Len(node.sub) < 2 THEN FALSE
            ELSE ends_in_return(node.sub[1]) /\ ends_in_return(node.sub[2])
      [] node.kind = "return" -> TRUE
      [] OTHER -> FALSE

\* the run of a statement can reach the statement's end
RECURSIVE completes(_)
completes(node) ==
    CASE node.kind = "return" -> FALSE
      [] node.kind = "sequence" -> \A i \in 1..Len(node.sub) : completes(node.sub[i])
      [] node.kind = "if" -> Len(node.sub) < 2 \/ \E i \in 1..Len(node.sub) : completes(node.sub[i])
      [] node.kind = "loop" -> FALSE
      [] OTHER -> TRUE

RetInit ==
    /\ fn_body \in StmtsOfNest(MaxNest)
    /\ fn_return \in ReturnTypes
    /\ fn_end = NoEnd
    /\ arr_info = NoArr
    /\ ConvIdle /\ CallIdle /\ CompIdle /\ VmIdle /\ ProgIdle /\ TmplIdle /\ RegIdle /\ RomIdle /\ ForIdle

\* compile_function after push_stmt(body)
CompileFunctionTail ==
    /\ fn_end = NoEnd
    /\ fn_end' =
          IF ends_in_return(fn_body) THEN [status |-> "compiled", ops |-> << >>]
          ELSE IF fn_return # null_type THEN [status |-> "error", ops |-> << >>]
          ELSE [status |-> "compiled", ops |-> <<Op("push_null", 0), Op("ret", 1)>>]
    /\ UNCHANGED <<baseVars, tmplVars, regVars, romVars, forVars, arr_info, fn_body, fn_return>>

RetNext == CompileFunctionTail

SpecRet == RetInit /\ [][RetNext]_vars

\* C19: the function is rejected exactly when its return type is not null
\* and its body does not end in a return; a body ends in a return iff it is
\* a return, a sequence whose last statement ends in a return, or an if with
\* an else whose branches both end in a return; an accepted null function
\* whose body does not end in a return gets `push_null; ret 1`; and in an
\* accepted function either that return closes the code or no run of the
\* body reaches the body's end.
C19_EndsInReturnOrRejected ==
    fn_end # NoEnd =>
        /\ fn_end.status = "error" <=> (fn_return # null_type /\ ~ends_in_return(fn_body))
        /\ ends_in_return(fn_body) <=>
               \/ fn_body.kind = "return"
               \/ /\ fn_body.kind = "sequence"
                  /\ fn_body.sub # << >>
                  /\ ends_in_return(fn_body.sub[Len(fn_body.sub)])
               \/ /\ fn_body.kind = "if"
                  /\ Len(fn_body.sub) = 2
                  /\ ends_in_return(fn_body.sub[1])
                  /\ ends_in_return(fn_body.sub[2])
        /\ (fn_end.status = "compiled" /\ ~ends_in_return(fn_body)) =>
               fn_end.ops = <<Op("push_null", 0), Op("ret", 1)>>
        /\ fn_end.status = "compiled" =>
               \/ fn_end.ops # << >> /\ fn_end.ops[Len(fn_end.ops)].op = "ret"
               \/ ~completes(fn_body)

C19_Witness ==
    /\ fn_end.status = "compiled"
    /\ fn_return = i32_type
    /\ fn_body.kind = "sequence"
    /\ Len(fn_body.sub) = MaxSeq
    /\ fn_body.sub[MaxSeq].kind = "if"
    /\ Len(fn_body.sub[MaxSeq].sub) = 2

\* C20: a copy of a nullptr value to a pointer type is accepted whatever
\* the pointee is and adds nothing to the 8 bytes of the value; a copy to
\* a span type is accepted and pushes the length word 0 after them, which
\* makes size_of(span) bytes.
C20_NullptrCopies ==
    (called = "push_copy_typechecked" /\ remove_const(src) = nullptr_type) =>
        /\ is_ptr(dst) =>
               /\ verdict
               /\ push_copy_typechecked(src, dst).extra = << >>
               /\ size_of(nullptr_type) = size_of(dst)
        /\ is_span(dst) =>
               /\ verdict
               /\ push_copy_typechecked(src, dst).extra = <<Op("push_u64", 0)>>
               /\ size_of(nullptr_type) + BytesPushedBy(push_copy_typechecked(src, dst).extra)
                      = size_of(dst)

C20_Witness ==
    /\ called = "push_copy_typechecked"
    /\ src = nullptr_type
    /\ is_span(dst)
    /\ dst[2].kind = "struct"
    /\ verdict

-----------------------------------------------------------------------------
\* SpecAddr: statements that compile an expression in address mode (an
\* address-of expression, an assignment, a span expression), over every
\* form of expression.  Names are resolved in the order of
\* push_expr(node_name_expr): struct template, function, builtin, type,
\* variable; the struct template "T" is registered by its first use, in an
\* earlier statement or in the one compiled.

FunctionNames == {"f"}

BuiltinNames == {"sqrt"}

StructTemplates == {"T"}

function_ptr_type == <<Layer("function_ptr", "f", 0, FALSE)>>

builtin_type(name) == <<Layer("builtin", name, 0, FALSE)>>

bound_builtin_method_type == <<Layer("bound_builtin_method", "size", 0, FALSE)>>

\* make_type (compiler.cpp 52-72)
make_type_of_name(name) ==
    IF name \in {"null", "bool", "char", "i32", "i64", "u64", "f64", "nullptr"}
    THEN fundamental(name)
    ELSE struct_type(name)

\* type_manager::contains of the type a name makes
types_contains(classes, name) ==
    make_type_of_name(name)[1].kind = "fundamental" \/ contains(classes, name)

\* an assert that lets address mode through
assert_any(ct) == TRUE

\* node.token.assert(ct == compile_type::val, "cannot take the address of ...")
assert_val(ct) == ct = "val"

Compiled(type, classes) == [ok |-> TRUE, type |-> type, classes |-> classes]

Fatal(classes) == [ok |-> FALSE, type |-> null_type, classes |-> classes]

\* push_expr over every expression form; classes is com.types before the
\* call, and the answer holds com.types after it.
RECURSIVE push_expr_any(_, _, _, _)
push_expr_any(classes, scs, ct, e) ==
    LET node == e[Len(e)]
        sub == SubSeq(e, 1, Len(e) - 1)
        \* push_expr(com, compile_type::val, *node.expr) and type_of_expr(com, *node.expr)
        V == push_expr_any(classes, scs, "val", sub)
        \* push_expr(com, compile_type::ptr, *node.expr) after it
        P == push_expr_any(V.classes, scs, "ptr", sub)
        type == V.type
    IN  CASE node.kind = "literal" ->
                IF assert_val(ct) THEN Compiled(literal_type(node.name), classes)
                ELSE Fatal(classes)
          [] node.kind = "function_ptr_type" ->
                IF assert_val(ct) THEN Compiled(TypeValueOf(function_ptr_type), classes)
                ELSE Fatal(classes)
          [] node.kind = "name" ->
                IF node.name \in StructTemplates /\ ~contains(classes, node.name)
                THEN Compiled(TypeValueOf(struct_type(node.name)),
                              add(classes, node.name, << >>).classes)
                ELSE IF node.name \in FunctionNames
                THEN IF assert_val(ct) THEN Compiled(function_ptr_type, classes)
                     ELSE Fatal(classes)
                ELSE IF node.name \in BuiltinNames
                THEN IF assert_val(ct) THEN Compiled(builtin_type(node.name), classes)
                     ELSE Fatal(classes)
                ELSE IF types_contains(classes, node.name)
                THEN IF assert_val(ct)
                     THEN Compiled(TypeValueOf(make_type_of_name(node.name)), classes)
                     ELSE Fatal(classes)
                ELSE IF push_var_addr(scs, node.name).ok
                THEN Compiled(push_var_addr(scs, node.name).type, classes)
                ELSE Fatal(classes)
          [] node.kind = "unary_op" ->
                IF assert_val(ct) /\ V.ok /\ type = i32_type
                THEN Compiled(type, V.classes) ELSE Fatal(V.classes)
          [] node.kind = "binary_op" ->
                IF assert_val(ct) /\ V.ok /\ type \in {i32_type, u64_type}
                THEN Compiled(type, V.classes) ELSE Fatal(V.classes)
          [] node.kind = "call" ->
                IF ~assert_val(ct) \/ ~V.ok THEN Fatal(V.classes)
                ELSE IF is_type_value(type) THEN Compiled(inner_type(type), V.classes)
                ELSE IF type = function_ptr_type THEN Compiled(i32_type, V.classes)
                ELSE IF type = bound_builtin_method_type THEN Compiled(u64_type, V.classes)
                ELSE Fatal(V.classes)
          [] node.kind = "array" ->
                IF assert_val(ct) /\ V.ok /\ ~is_type_value(type)
                THEN Compiled(add_array(type, 1), V.classes) ELSE Fatal(V.classes)
          [] node.kind = "repeat_array" ->
                IF assert_val(ct) /\ V.ok /\ ~is_type_value(type)
                THEN Compiled(add_array(type, RepeatCount), V.classes) ELSE Fatal(V.classes)
          [] node.kind = "addrof" ->
                IF ~assert_val(ct) \/ ~V.ok THEN Fatal(V.classes)
                ELSE IF is_type_value(type)
                THEN Compiled(TypeValueOf(add_ptr(inner_type(type))), V.classes)
                ELSE IF size_of(type) = 0 \/ ~P.ok THEN Fatal(V.classes)
                ELSE Compiled(add_ptr(type), P.classes)
          [] node.kind = "sizeof" ->
                IF assert_val(ct) /\ V.ok THEN Compiled(u64_type, V.classes)
                ELSE Fatal(V.classes)
          [] node.kind = "span" ->
                IF ~assert_val(ct) \/ ~V.ok THEN Fatal(V.classes)
                ELSE IF is_type_value(type)
                THEN Compiled(TypeValueOf(add_span(inner_type(type))), V.classes)
                ELSE IF ~(is_array(type) \/ is_span(type)) \/ ~P.ok THEN Fatal(V.classes)
                ELSE IF is_array(type)
                THEN Compiled(IF type[1].is_const
                              THEN add_span(add_const(inner_type(type)))
                              ELSE add_span(inner_type(type)), P.classes)
                ELSE Compiled(IF type[1].is_const
                              THEN add_span(add_const(inner_type(type)))
                              ELSE type, P.classes)
          [] node.kind = "typeof" ->
                IF assert_val(ct) /\ V.ok THEN Compiled(TypeValueOf(type), V.classes)
                ELSE Fatal(V.classes)
          [] node.kind = "const" ->
                IF assert_val(ct) /\ V.ok /\ is_type_value(type)
                THEN Compiled(TypeValueOf(add_const(inner_type(type))), V.classes)
                ELSE Fatal(V.classes)
          [] node.kind = "new" ->
                \* the arena expression is the name "a"
                IF assert_val(ct) /\ V.ok /\ push_var_addr(scs, "a").ok
                THEN Compiled(add_ptr(type), V.classes) ELSE Fatal(V.classes)
          [] node.kind = "field" ->
                LET stripped == strip_pointers(type)
                    offset == push_field_offset(stripped, node.name)
                IN  IF ~V.ok \/ is_type_value(type) THEN Fatal(V.classes)
                    ELSE IF (is_array(type) \/ is_span(type) \/ is_arena(type))
                            /\ ~assert_val(ct)
                    THEN Fatal(V.classes)
                    ELSE IF (is_array(type) \/ is_span(type) \/ is_arena(type))
                            /\ node.name = "size"
                    THEN IF P.ok THEN Compiled(bound_builtin_method_type, P.classes)
                         ELSE Fatal(V.classes)
                    ELSE IF ~P.ok \/ ~offset.ok THEN Fatal(V.classes)
                    ELSE Compiled(field_type_of(stripped, offset.type), P.classes)
          [] node.kind = "deref" ->
                IF V.ok /\ is_ptr(type) THEN Compiled(remove_ptr(type), V.classes)
                ELSE Fatal(V.classes)
          [] node.kind = "subscript" ->
                IF ~V.ok THEN Fatal(V.classes)
                ELSE IF is_type_value(type)
                THEN Compiled(TypeValueOf(add_array(inner_type(type), 0)), V.classes)
                ELSE IF ~(is_array(type) \/ is_span(type)) \/ ~P.ok THEN Fatal(V.classes)
                ELSE Compiled(element_type_of(type), P.classes)
          [] OTHER -> Fatal(classes)

\* type_of_expr (compiler.cpp 204-210) over every expression form: what it
\* registered stays registered
type_of_expr_any(classes, scs, e) == push_expr_any(classes, scs, "val", e)

AddrBases ==
    { <<Node("name", n)>> : n \in {"a", "f", "sqrt", "i32", "S", "T", "z"} }
        \cup { <<Node("literal", l)>> : l \in {"i32", "u64", "bool", "null", "nullptr"} }
        \cup { <<Node("function_ptr_type", "")>> }

AddrSteps ==
    { Node("field", f) : f \in {"x", "arr", "size"} }
        \cup { Node(k, "") : k \in {"subscript", "deref", "addrof", "repeat_array",
                                    "unary_op", "binary_op", "call", "array", "sizeof",
                                    "span", "typeof", "const", "new"} }

RECURSIVE AddrExprsOfSteps(_)
AddrExprsOfSteps(n) ==
    IF n = 0 THEN AddrBases
    ELSE AddrExprsOfSteps(n - 1)
            \cup { Append(e, st) : e \in AddrExprsOfSteps(n - 1), st \in AddrSteps }

AddrExprs == AddrExprsOfSteps(MaxSteps)

AddrInit ==
    /\ \E t \in StmtParamTypes : scopes = declare_var(new_scope(<< >>), "a", t).scopes
    /\ code = << >>
    /\ status = "compiling"
    /\ last_call = Call("declare", "a", 0, TRUE)
    /\ last_stmt = NoStmt
    /\ \E registered \in { {"S", "P"} \cup ts : ts \in SUBSET StructTemplates } :
         d_classes = [n \in registered |-> fields_of(struct_type(n))]
    /\ last_add = NoAdd
    /\ ConvIdle
    /\ CallIdle
    /\ VmIdle
    /\ ProgIdle
    /\ TmplIdle
    /\ ForIdle
    /\ ArrIdle
    /\ RomIdle

notAddr ==
    <<convVars, callVars, vmVars, progVars, tmplVars, forVars, arrVars, romVars, last_add>>

\* the statement compiled: whether it went as far as compiling e in address
\* mode, and what that and the whole statement answered
AddrDone(kind, e, reached, addressed, done) ==
    /\ last_stmt' = Stmt(kind, e, done.type, addressed.type, done.ok)
    /\ last_call' = IF reached THEN Call("push_expr", "ptr", 0, addressed.ok)
                    ELSE Call("none", "", 0, TRUE)
    /\ d_classes' = done.classes
    /\ status' = IF done.ok THEN "compiled" ELSE "error"
    /\ UNCHANGED <<scopes, code, notAddr>>

\* push_expr(node_addrof_expr) (compiler.cpp 774-786) as an expression statement
AddrOfStmt ==
    /\ status = "compiling"
    /\ \E e \in AddrExprs :
         \E typed \in { type_of_expr_any(d_classes, scopes, e) } :
           AddrDone("addrof", e,
                    typed.ok /\ ~is_type_value(typed.type) /\ size_of(typed.type) # 0,
                    push_expr_any(typed.classes, scopes, "ptr", e),
                    push_expr_any(d_classes, scopes, "val", Append(e, Node("addrof", ""))))

\* push_expr(node_span_expr) (compiler.cpp 800-859) as an expression statement
SpanStmt ==
    /\ status = "compiling"
    /\ \E e \in AddrExprs :
         \E typed \in { type_of_expr_any(d_classes, scopes, e) } :
           AddrDone("span", e,
                    typed.ok /\ (is_array(typed.type) \/ is_span(typed.type)),
                    push_expr_any(typed.classes, scopes, "ptr", e),
                    push_expr_any(d_classes, scopes, "val", Append(e, Node("span", ""))))

\* push_stmt(node_assignment_stmt) (compiler.cpp 1296-1304) of `e = e`
SelfAssignmentStmt ==
    /\ status = "compiling"
    /\ \E e \in AddrExprs :
         \E lhs_type \in { type_of_expr_any(d_classes, scopes, e) } :
         \E rhs \in { push_expr_any(lhs_type.classes, scopes, "val", e) } :
         \E lhs \in { push_expr_any(rhs.classes, scopes, "ptr", e) } :
         \E reached \in { /\ lhs_type.ok
                          /\ assignable(lhs_type.type)
                          /\ rhs.ok
                          /\ push_copy_typechecked(rhs.type, lhs_type.type).ok } :
           AddrDone("assignment", e, reached, lhs,
                    IF reached /\ lhs.ok THEN Compiled(lhs.type, lhs.classes)
                    ELSE Fatal(lhs_type.classes))

AddrNext ==
    \/ AddrOfStmt
    \/ SpanStmt
    \/ SelfAssignmentStmt

SpecAddr == AddrInit /\ [][AddrNext]_vars

\* the name resolves to a variable: no function, builtin or type has it
names_variable(classes, scs, name) ==
    /\ name \notin FunctionNames \cup BuiltinNames \cup StructTemplates
    /\ ~types_contains(classes, name)
    /\ find(scs, name).found

\* C21: when a statement compiles an expression in address mode, that
\* succeeds only if the expression is a name of a variable, a field access,
\* a dereference or a subscript; for every other form (literal, unary or
\* binary op, call, array literal, address-of, sizeof, span, typeof, const,
\* new, function pointer type, name of a function, builtin or type) it is a
\* fatal error and the compilation stops.
C21_AddressModeOnlyForLvalues ==
    last_call.fn = "push_expr" =>
        LET e == last_stmt.expr
            node == e[Len(e)]
            lvalue == /\ is_lvalue_expr(e)
                      /\ node.kind = "name" => names_variable(d_classes, scopes, node.name)
        IN  /\ last_call.ok => lvalue
            /\ ~lvalue => (~last_call.ok /\ ~last_stmt.ok /\ status = "error")

\* the address of the name of a function was asked for: the name was
\* compiled in address mode and refused there
C21_Witness ==
    /\ last_call.fn = "push_expr"
    /\ ~last_call.ok
    /\ last_stmt.kind = "addrof"
    /\ last_stmt.expr = <<Node("name", "f")>>
    /\ status = "error"

-----------------------------------------------------------------------------
\* SpecUnder: the byte stack of the VM (vm_stack of runtime.hpp) and the ops
\* of runtime.cpp that pop from it, run on stacks that hold fewer bytes than
\* the op takes.  memory is the buffer d_data, d_current_size the number of
\* bytes in use, kept as the 64-bit word it is.  A read outside the buffer
\* is undefined: the process is stopped by the fault, or goes on with
\* whatever the read gave.  Once the size has wrapped the model follows the
\* run no further.

MaxStack == 18          \* d_max_size, the bytes of the buffer

PopSizes == {1, WordSize}       \* sizeof(T) of the values popped

\* d_current_size -= n, in 64 bits
RECURSIVE sub_word(_, _)
sub_word(bytes, n) ==
    IF bytes = << >> THEN << >>
    ELSE IF Head(bytes) >= n THEN <<Head(bytes) - n>> \o Tail(bytes)
    ELSE <<Head(bytes) - n + ByteRange>> \o sub_word(Tail(bytes), 1)

\* the bytes in use, -1 for a size beyond what the model holds as a number
stack_size == word_of(d_current_size)

StackOp(op, count) == [op |-> op, count |-> count]

UnderInit ==
    /\ memory = [i \in 1..MaxStack |-> 0]
    /\ d_current_size = bytes_of(0)
    /\ base_ptr = 0
    /\ prog_ptr = 0
    /\ frames = << >>
    /\ last_op = StackOp("none", 0)
    /\ scopes = << >>
    /\ code = << >>
    /\ status = "running"
    /\ last_call = Call("none", "", 0, TRUE)
    /\ last_stmt = NoStmt
    /\ ConvIdle
    /\ CallIdle
    /\ ProgIdle
    /\ LaterIdle

notUnder ==
    <<base_ptr, prog_ptr, frames, scopes, code, last_call, last_stmt, convVars, callVars,
      progVars, laterVars>>

\* the stack holds size bytes and the buffer holds mem
Holds(size, mem, op, count) ==
    /\ d_current_size' = size
    /\ memory' = mem
    /\ last_op' = StackOp(op, count)
    /\ UNCHANGED <<status, notUnder>>

\* the memcpy of vm_stack::pop read outside d_data: the fault stops the
\* process, or the run goes on with the size the subtraction left
ReadOutside(size, op, count) ==
    /\ d_current_size' = size
    /\ last_op' = StackOp(op, count)
    /\ status' \in {"aborted", "running"}
    /\ UNCHANGED <<memory, notUnder>>

\* the read of count bytes at size lies inside the buffer
inside(size, count) == word_of(size) >= 0 /\ word_of(size) + count <= MaxStack

\* vm_stack::push<T> of a value: a byte of data, or a word that is an
\* address or a size; the data lies below the words
StackPush ==
    /\ status = "running"
    /\ stack_size >= 0
    /\ \E value \in { <<1>>, bytes_of(0), bytes_of(1) } :
         /\ stack_size + Len(value) <= MaxStack
         /\ Len(value) = 1 => stack_size < MaxStack - 2 * WordSize
         /\ Holds(bytes_of(stack_size + Len(value)), written(memory, stack_size, value),
                  "push", Len(value))

\* vm_stack::pop<T> (runtime.hpp 39-46)
StackPop ==
    /\ status = "running"
    /\ stack_size >= 0
    /\ \E count \in PopSizes :
         \E size \in { sub_word(d_current_size, count) } :
           IF inside(size, count)
           THEN Holds(size, memory, "pop", count)
           ELSE ReadOutside(size, "pop", count)

\* apply_op(op_pop) (runtime.cpp 71-76): op.size bytes leave the stack, one
\* at a time
ApplyPop ==
    /\ status = "running"
    /\ stack_size >= 0
    /\ \E count \in 1..2 :
         \E size \in { sub_word(d_current_size, count) } :
           IF inside(size, count)
           THEN Holds(size, memory, "op_pop", count)
           ELSE ReadOutside(size, "op_pop", count)

\* apply_op(op_save) (runtime.cpp 59-70): the size and the pointer are
\* popped, the assert stops the process for an address beyond the stack,
\* and the bytes on top move to the address
ApplySave ==
    /\ status = "running"
    /\ stack_size >= 0
    /\ \E popped \in { sub_word(d_current_size, 2 * WordSize) } :
         IF ~inside(popped, 2 * WordSize)
         THEN ReadOutside(popped, "op_save", 2 * WordSize)
         ELSE \E size \in { word_at(memory, word_of(popped) + WordSize) } :
              \E ptr \in { word_at(memory, word_of(popped)) } :
                IF size < 0 \/ ptr < 0 \/ ptr + size > word_of(popped)
                THEN /\ status' = "aborted"
                     /\ d_current_size' = popped
                     /\ last_op' = StackOp("op_save", 0)
                     /\ UNCHANGED <<memory, notUnder>>
                ELSE IF ptr + size < word_of(popped)
                THEN Holds(bytes_of(word_of(popped) - size),
                           written(memory, ptr,
                                   SubSeq(memory, word_of(popped) - size + 1, word_of(popped))),
                           "op_save", size)
                ELSE Holds(popped, memory, "op_save", 0)

UnderNext ==
    \/ StackPush
    \/ StackPop
    \/ ApplyPop
    \/ ApplySave

SpecUnder == UnderInit /\ [][UnderNext]_vars

\* C22: an op that pops or reads more bytes than the stack holds aborts the
\* VM: the step of such an op ends in the aborted state, and the VM never
\* runs on with a size beyond its buffer.
C22_UnderflowAborts ==
    /\ [](status = "running" => (stack_size >= 0 /\ stack_size <= MaxStack))
    /\ [][(last_op'.op \in {"pop", "op_pop", "op_save"} /\ stack_size >= 0
             /\ last_op'.count > stack_size) => status' = "aborted"]_vars

-----------------------------------------------------------------------------
\* Blocks, break and continue, return and while in SpecProg.

\* the sizes of the variables a scope declares
RECURSIVE declared_size(_)
declared_size(variables) ==
    IF variables = << >> THEN 0 ELSE Head(variables).size + declared_size(Tail(variables))

\* the step opens a block
opens_block ==
    /\ Len(open') = Len(open) + 1
    /\ open'[Len(open')].kind = "block"

\* the step ends the innermost block
ends_block ==
    /\ open # << >>
    /\ open[Len(open)].kind = "block"
    /\ Len(open') = Len(open) - 1

\* C23: a block pushes one scope and emits nothing when it opens; when it
\* ends, its scope is popped and one `pop n` is emitted, n being the total
\* size of the variables declared in that scope and still there, nothing
\* being emitted for n = 0; the next-offset cursor and the number of open
\* scopes are then what they were before the block.
C23_BlockScope ==
    [][/\ opens_block =>
            /\ Len(scopes') = Len(scopes) + 1
            /\ scopes'[Len(scopes')].variables = << >>
            /\ next_location(scopes') = next_location(scopes)
            /\ code' = code
       /\ ends_block =>
            \E n \in { declared_size(scopes[Len(scopes)].variables) } :
                /\ code' = code \o (IF n > 0 THEN <<Op("pop", n)>> ELSE << >>)
                /\ Len(scopes') = Len(scopes) - 1
                /\ Len(scopes') = open[Len(open)].depth
                /\ next_location(scopes') = open[Len(open)].cursor]_vars

\* a block that declared variables has ended: the code ends in the pop of
\* their bytes, emitted where the cursor stood that many bytes higher
C23_Witness ==
    /\ status = "compiling"
    /\ Len(open) = 1
    /\ code # << >>
    /\ code[Len(code)].op = "pop"
    /\ <<code_size(code) - op_len(code[Len(code)]),
         next_location(scopes) + code[Len(code)].arg>> \in boundaries
    /\ <<code_size(code), next_location(scopes)>> \in boundaries
    /\ \E i \in 1..Len(code) : code[i].op = "push_ptr_local"

\* the sizes of the variables declared in the scopes from index k on
RECURSIVE declared_from(_, _)
declared_from(scs, k) ==
    IF k > Len(scs) THEN 0
    ELSE declared_size(scs[k].variables) + declared_from(scs, k + 1)

\* the step compiles a break (resp. continue): a jump position is added to
\* the patch list of the innermost loop, no statement being opened
adds_to(list) ==
    /\ status = "compiling"
    /\ in_loop(scopes)
    /\ Len(open') = Len(open)
    /\ Len(scopes') = Len(scopes)
    /\ get_loop_info(scopes')[list] # get_loop_info(scopes)[list]

\* what a break or continue leaves: the stack adjust and a jump are
\* emitted, the placeholder is recorded, and the scopes are as before
exit_emitted(list) ==
    \E n \in { declared_from(scopes, loop_index(scopes) + 1) } :
        /\ code' = code \o (IF n > 0 THEN <<Op("pop", n)>> ELSE << >>) \o <<Op("jump", 0)>>
        /\ get_loop_info(scopes')[list] = Append(get_loop_info(scopes)[list], Len(code'))
        /\ [scopes' EXCEPT ![loop_index(scopes)][list] = get_loop_info(scopes)[list]] = scopes
        /\ next_location(scopes') = next_location(scopes)
        /\ \A name \in {"c", "x", "p"} : find(scopes', name) = find(scopes, name)

\* C24: compiling break or continue emits the pop of the bytes of every
\* scope inside the enclosing loop scope, then a jump whose placeholder is
\* appended to the loop's break (resp. continue) list, and pops no scope:
\* the scope stack, the declared variables and the next-offset cursor are
\* the same after the statement as before it, so a name resolves to the
\* same variable at the same offset.
C24_LoopExitKeepsScopes ==
    [][/\ adds_to("breaks") => exit_emitted("breaks")
       /\ adds_to("continues") => exit_emitted("continues")]_vars

\* a continue was compiled after a declaration in the body of a while loop,
\* whose test holds a break: the pop of the variable and the jump were emitted
C24_Witness ==
    /\ status = "compiling"
    /\ in_loop(scopes)
    /\ Len(scopes) > loop_index(scopes) + 1
    /\ get_loop_info(scopes).breaks # << >>
    /\ get_loop_info(scopes).continues # << >>
    /\ find(scopes, "x").found
    /\ find(scopes, "x").depth > loop_index(scopes)
    /\ code[Len(code) - 1] = Op("pop", find(scopes, "x").var.size)

\* ---------------------------------------------------------------------
\* SpecExit: a function whose body declares variables in nested blocks and
\* returns a value, then runs
\* ---------------------------------------------------------------------

ReturnExprs ==
    { <<Node("literal", "null")>>, <<Node("literal", "i32")>>, <<Node("name", "x")>> }

ExitInit ==
    /\ \E params \in ProgParams :
         /\ scopes = IF params = << >> THEN new_scope(<< >>)
                     ELSE declare_var(new_scope(<< >>), params[1], bool_type).scopes
         /\ last_call = IF params = << >> THEN Call("new_scope", "", 0, TRUE)
                        ELSE Call("declare", params[1], size_of(bool_type), TRUE)
    /\ fn_return \in {null_type, i32_type}
    /\ code = << >>
    /\ status = "compiling"
    /\ last_stmt = NoStmt
    /\ open = <<Open("function")>>
    /\ stmts = 0
    /\ boundaries = { <<0, next_location(scopes)>> }
    /\ loops = {}
    /\ pc = 0
    /\ stack = << >>
    /\ stale = << >>
    /\ fn_body = Tree("sequence", << >>)
    /\ fn_end = NoEnd
    /\ arr_info = NoArr
    /\ TmplIdle
    /\ RegIdle /\ RomIdle
    /\ ForIdle
    /\ ConvIdle
    /\ CallIdle
    /\ VmIdle

\* push_stmt(node_return_stmt): the value, the function-exit adjust, then
\* ret with the size of the value's type. last_stmt.value holds the offset
\* of the ret and the next-offset cursor the statement was compiled at.
CompileReturnValue ==
    /\ can_start
    /\ \E e \in ReturnExprs :
         \E value \in { push_expr(scopes, "val", e) } :
           IF ~value.ok \/ value.type # fn_return
           THEN ProgError
           ELSE \E body \in { code \o value.ops \o handle_function_exit(scopes) } :
                  /\ code' = body \o <<Op("ret", size_of(value.type))>>
                  /\ last_stmt' = Stmt("return", e, value.type,
                                       <<code_size(body), next_location(scopes)>>, TRUE)
                  /\ open' = complete(open, TRUE)
                  /\ stmts' = stmts + 1
                  /\ boundaries' = boundaries \cup { <<code_size(code'), next_location(scopes)>> }
                  /\ UNCHANGED <<scopes, status, last_call, loops, pc, stack, stale, convVars,
                                 callVars, vmVars, laterVars>>

\* compile_function's end: a body that does not end in a return needs the
\* return type null
ExitFunctionEnd ==
    IF status = "compiling" /\ Len(open) = 1 /\ open[1].body_done
       /\ ~open[1].returns /\ fn_return # null_type
    THEN ProgError
    ELSE CompileFunctionEnd

ExitNext ==
    \/ CompileDeclaration
    \/ CompileBlock
    \/ CompileEndBlock
    \/ CompileReturnValue
    \/ ExitFunctionEnd
    \/ CallFunction
    \/ ExecPush
    \/ ExecPushPtrLocal
    \/ ExecLoad
    \/ ExecPop
    \/ ExecRet

SpecExit == ExitInit /\ [][ExitNext]_vars

\* the run has stopped at the ret of the last return statement compiled
at_return ==
    /\ status = "returned"
    /\ last_stmt.kind = "return"
    /\ pc = last_stmt.value[1]

\* the bytes a return expression evaluates to, where the expression fixes them
literal_value(e) ==
    CASE e = <<Node("literal", "null")>> -> <<0>>
      [] e = <<Node("literal", "i32")>> -> bytes_from(1, 4)
      [] OTHER -> << >>

WhileNext ==
    \/ CompileDeclaration
    \/ CompileExpression
    \/ CompileBlock
    \/ CompileEndBlock
    \/ CompileLoop
    \/ CompileWhile
    \/ CompileEndLoop
    \/ CompileBreak
    \/ CompileContinue
    \/ CompileReturn
    \/ CompileFunctionEnd
    \/ Run

SpecWhile == ProgInit /\ [][WhileNext]_vars

\* the offset of the instruction with index i
offset_of(ops, i) == code_size(SubSeq(ops, 1, i - 1))

\* the while loops compiled: the loops whose first break is the one of the
\* test, the instruction after a jump_if_false
is_while(l) ==
    /\ l.breaks # << >>
    /\ l.breaks[1] > 1
    /\ code[l.breaks[1] - 1].op = "jump_if_false"

test_pos(l) == offset_of(code, l.breaks[1] - 1)

break_pos(l) == offset_of(code, l.breaks[1])

body_pos(l) == offset_of(code, l.breaks[1] + 1)

\* the value the condition of the loop has: the literal true, or the
\* parameter c at the start of the frame
cond_value(l) ==
    IF code[instruction_at(code, l.begin_pos)].op = "push_bool" THEN 1 ELSE stack[1]

\* the code of a while loop: the condition pushed once, its negation, the
\* jump over the break to the body, and the break to the end of the loop
lowered(l) ==
    \E first \in { instruction_at(code, l.begin_pos) } :
    \E test \in { l.breaks[1] - 1 } :
        /\ first # 0
        /\ \/ test = first + 2 /\ code[first] = Op("push_bool", 1)
           \/ /\ test = first + 3
              /\ code[first] = Op("push_ptr_local", 0)
              /\ code[first + 1] = Op("load", 1)
        /\ code[test - 1].op = "bool_not"
        /\ code[test] = Op("jump_if_false", body_pos(l))
        /\ code[test + 1] = Op("jump", l.end_pos)

\* the stack depth before the loop: the cursor where the loop begins
depth_before(l, depth) == \A b \in boundaries : b[1] = l.begin_pos => depth = b[2]

\* the steps from the test of a while loop: a true condition goes to the
\* body, a false one to the break and from there out of the loop, the body
\* not run and the stack as deep as before the loop
test_steps(l) ==
    /\ pc = test_pos(l) =>
          /\ stack[Len(stack)] = 1 - cond_value(l)
          /\ pc' = IF cond_value(l) = 1 THEN body_pos(l) ELSE break_pos(l)
          /\ depth_before(l, Len(stack'))
    /\ pc = break_pos(l) =>
          /\ pc' = l.end_pos
          /\ stack' = stack

C26_Iterated ==
    /\ status = "running"
    /\ \E l \in loops :
          /\ is_while(l)
          /\ pc = l.begin_pos
          /\ stale # << >>
          /\ code[l.breaks[1] + 1].op = "push_i32"
    /\ stack = <<1>>

\* ---------------------------------------------------------------------
\* SpecTypeOf: expressions compiled for real and typed through
\* type_of_expr, in $main and in the bodies of the function templates
\* their typing compiles
\* ---------------------------------------------------------------------

\* a use of an expression: program_size is what type_of_expr keeps across
\* push_expr, before the code the current function had when it was called
TypedUse(kind, name, typed, id, program_size, before) ==
    [kind |-> kind, name |-> name, typed |-> typed, id |-> id,
     program_size |-> program_size, before |-> before]

\* resize that leaves the vector as it is
resize_kept(ops, n) == ops

\* std::vector::resize: the first n elements, value-initialised ones added
\* to a shorter vector
resize(ops, n) ==
    IF n <= Len(ops) THEN SubSeq(ops, 1, n)
    ELSE ops \o [k \in 1..(n - Len(ops)) |-> Op("", 0)]

\* type_of_expr 207-209 after push_expr has answered: code(com) is the code
\* of the function current at that moment
discarded(fns, id, use) ==
    IF use.typed THEN [fns EXCEPT ![id + 1].code = resize(@, use.program_size)]
    ELSE fns

\* the code of the function being compiled
current_code == functions[current_id + 1].code

\* a literal compiled for real or typed through type_of_expr
TypeLiteral ==
    /\ fns_compiling
    /\ ops_total(functions, Len(functions)) < MaxOps
    /\ \E typed \in BOOLEAN :
       \E use \in { TypedUse("literal", "", typed, 0, Len(current_code), current_code) } :
         /\ functions' = discarded(with_op(functions, current_id, Op("push_i32", 1)),
                                   current_id, use)
         /\ last_use' = use
         /\ last_stmt' = Stmt(IF typed THEN "type_of_expr" ELSE "push_expr",
                              << >>, << >>, << >>, TRUE)
    /\ UNCHANGED <<functions_by_name, current_function, compiled, waiting, status, notFns>>

\* push_expr(node_name_expr) 915-925 on the name of a function template,
\* for real or through type_of_expr: a name already compiled pushes its id,
\* a new one starts compile_function with the current function's code as
\* it is
TypeTemplate ==
    /\ fns_compiling
    /\ ops_total(functions, Len(functions)) < MaxOps
    /\ \E arg \in TemplateArgs, typed \in BOOLEAN :
       \E resolved \in { make_type(functions[current_id + 1].templates, arg) } :
       \E full_name \in { fn_name("f", resolved) } :
       \E found \in { get_function(functions_by_name, full_name) } :
         IF resolved = ""
         THEN FnsError("use")
         ELSE IF found # -1
         THEN \E use \in { TypedUse("name", full_name, typed, found,
                                    Len(current_code), current_code) } :
                /\ functions' = discarded(with_op(functions, current_id,
                                                  Op("push_u64", found)),
                                          current_id, use)
                /\ last_use' = use
                /\ last_stmt' = Stmt(IF typed THEN "type_of_expr" ELSE "push_expr",
                                     << >>, << >>, << >>, TRUE)
                /\ UNCHANGED <<functions_by_name, current_function, compiled, waiting,
                               status, notFns>>
         ELSE /\ Len(functions) < MaxFunctions
              /\ functions' = Append(functions, Function(full_name, resolved))
              /\ current_function' = Append(current_function, Len(functions))
              /\ functions_by_name' = emplace(functions_by_name, full_name, Len(functions))
              /\ compiled' = [compiled EXCEPT ![full_name] = @ + 1]
              /\ waiting' = Append(waiting,
                                   TypedUse("name", full_name, typed, Len(functions),
                                            Len(current_code), current_code))
              /\ last_stmt' = Stmt("compile_function", << >>, << >>, << >>, TRUE)
              /\ UNCHANGED <<last_use, status, notFns>>

\* compile_function 385-394, then the rest of the push_expr that started
\* it and of the type_of_expr around that: the implicit return, the
\* function is left, its id is pushed in the function current again, and a
\* typing resizes that function's code
TypeEndFunction ==
    /\ fns_compiling
    /\ in_function
    /\ \E caller \in { current_function[Len(current_function) - 1] } :
       \E use \in { waiting[Len(waiting)] } :
         /\ current_function' = SubSeq(current_function, 1, Len(current_function) - 1)
         /\ waiting' = SubSeq(waiting, 1, Len(waiting) - 1)
         /\ functions' = discarded(with_op(with_op(functions, current_id, Op("ret", 1)),
                                           caller, Op("push_u64", use.id)),
                                   caller, use)
         /\ last_use' = use
         /\ last_stmt' = Stmt(IF use.typed THEN "type_of_expr" ELSE "push_expr",
                              << >>, << >>, << >>, TRUE)
    /\ UNCHANGED <<functions_by_name, compiled, status, notFns>>

TypeOfNext ==
    \/ TypeLiteral
    \/ TypeTemplate
    \/ TypeEndFunction
    \/ ReturnStmt

SpecTypeOf == FnsInit /\ [][TypeOfNext]_vars

\* C27: when type_of_expr returns, the code of the function being compiled
\* is what it was when type_of_expr was called, in length and in content,
\* also when the typing has compiled a template function in between.
C27_TypeOfKeepsCode ==
    last_stmt.kind = "type_of_expr" =>
        /\ Len(current_code) = last_use.program_size
        /\ current_code = last_use.before

\* inside an instantiation whose code holds an op, a typing has compiled
\* another instantiation, whose code is kept
C27_Witness ==
    /\ last_stmt.kind = "type_of_expr"
    /\ in_function
    /\ last_use.before # << >>
    /\ last_use.kind = "name"
    /\ last_use.id = Len(functions) - 1
    /\ functions[last_use.id + 1].code # << >>
    /\ compiled[last_use.name] = 1

\* ---------------------------------------------------------------------
\* SpecNest: a function fn f(c: bool, a: T) whose body holds for
\* statements, one in the body of another, declarations and blocks
\* ---------------------------------------------------------------------

\* node_for_stmt::name
ForNames == { "e", "x" }

\* the for statements the statement being compiled is in the body of
fors_open(opened) == { i \in 1..Len(opened) : opened[i].kind = "for" }

\* push_stmt(node_for_stmt) 1145-1208, up to the body, wherever a statement
\* can start: last_stmt holds the iterable, its type, the name of the
\* element variable and whether the statement compiled
CompileNestedFor ==
    /\ status = "compiling"
    /\ open # << >>
    /\ open[Len(open)].kind = "block" \/ ~open[Len(open)].body_done
    /\ stmts < MaxStmts
    /\ Len(open) < MaxOpen
    /\ \E iter \in ForIters, name \in ForNames :
       \E fs \in { for_scopes(scopes, iter) } :
       \E header \in { code \o for_header(fs, iter) } :
       \E tested \in { header \o for_test(fs) } :
       \E broken \in { tested \o handle_loop_exit(fs.body) \o <<Op("jump", 0)>> } :
       \E var \in { declare_var(with_break(fs.body, Len(broken)), name,
                                add_ptr(inner_type(fs.iter_type))) } :
         IF ~fs.ok \/ ~var.ok
         THEN /\ status' = "error"
              /\ last_stmt' = Stmt("for", iter, fs.iter_type, name, FALSE)
              /\ UNCHANGED <<scopes, code, last_call, progVars, convVars, callVars, vmVars,
                             laterVars>>
         ELSE /\ scopes' = var.scopes
              /\ code' = write_target(broken, Len(tested), code_size(broken))
                            \o for_element(fs, iter)
              /\ open' = Append(open, [Open("for") EXCEPT !.begin_pos = code_size(header),
                                                          !.jump_pos = Len(broken),
                                                          !.depth = Len(scopes) + 1])
              /\ stmts' = stmts + 1
              /\ boundaries' = boundaries \cup { <<code_size(code'), next_location(var.scopes)>> }
              /\ last_stmt' = Stmt("for", iter, fs.iter_type, name, TRUE)
              /\ UNCHANGED <<status, last_call, loops, pc, stack, stale, convVars, callVars,
                             vmVars, laterVars>>

\* push_loop 449-464 after the body of the for statement, then 1210
CompileEndNestedFor ==
    /\ status = "compiling"
    /\ open # << >>
    /\ open[Len(open)].kind = "for"
    /\ open[Len(open)].body_done
    /\ \E body_scope \in { pop_scope(scopes) } :
       \E looped \in { code \o body_scope.ops \o <<Op("jump", open[Len(open)].begin_pos)>> } :
       \E control_flow \in { get_loop_info(body_scope.scopes) } :
       \E loop_scope \in { pop_scope(body_scope.scopes) } :
       \E outer \in { pop_scope(loop_scope.scopes) } :
         /\ scopes' = outer.scopes
         /\ code' = write_targets(write_targets(looped, control_flow.breaks,
                                                code_size(looped)),
                                  control_flow.continues, open[Len(open)].begin_pos)
                       \o loop_scope.ops \o outer.ops
         /\ open' = complete(enclosing(open), FALSE)
         /\ boundaries' = boundaries \cup { <<code_size(code'), next_location(outer.scopes)>> }
         /\ loops' = loops \cup { Loop(open[Len(open)].begin_pos, code_size(looped),
                                        control_flow.breaks, control_flow.continues) }
    /\ UNCHANGED <<status, last_call, last_stmt, stmts, pc, stack, stale, convVars,
                   callVars, vmVars, laterVars>>

\* a block or a declaration in the function or in the body of a for
\* statement
NestBlock ==
    /\ status = "compiling"
    /\ open # << >>
    /\ open[Len(open)].kind = "block" \/ ~open[Len(open)].body_done
    /\ stmts < MaxStmts
    /\ Len(open) < MaxOpen
    /\ Emit(new_scope(scopes), code,
            Append(open, [Open("block") EXCEPT !.cursor = next_location(scopes),
                                               !.depth = Len(scopes)]), 0)

NestDeclaration ==
    /\ status = "compiling"
    /\ open # << >>
    /\ open[Len(open)].kind = "block" \/ ~open[Len(open)].body_done
    /\ stmts < MaxStmts
    /\ \E name \in {"x", "p"} : \E e \in ProgExprs :
       \E typed \in { push_expr(scopes, "val", e) } :
       \E type \in { with_const(typed.type, FALSE) } :
       \E copy \in { push_copy_typechecked(typed.type, type) } :
       \E declared \in { declare_var(scopes, name, type) } :
         IF ~typed.ok \/ is_arena(type) \/ ~copy.ok \/ ~declared.ok
         THEN ProgError
         ELSE Emit(declared.scopes, code \o typed.ops \o copy.extra,
                   complete(open, FALSE), 1)

NestNext ==
    \/ CompileNestedFor
    \/ CompileEndNestedFor
    \/ NestBlock
    \/ NestDeclaration
    \/ CompileEndBlock

SpecNest == ForInit /\ [][NestNext]_vars

\* the iterable of the last for statement can be looped over: an array, or
\* a span that is an lvalue
loopable ==
    /\ last_stmt.type # << >>
    /\ \/ is_array(last_stmt.type)
       \/ is_span(last_stmt.type) /\ is_lvalue_expr(last_stmt.expr)

\* the last statement is a for statement in the body of another one, over
\* an iterable that can be looped over, with an element variable of a name
\* that no open scope declares
nested_for ==
    /\ last_stmt.kind = "for"
    /\ loopable
    /\ IF last_stmt.ok
       THEN Cardinality(fors_open(open)) >= 2 /\ status = "compiling"
            /\ open[Len(open)].kind = "for" /\ ~open[Len(open)].body_done
       ELSE Cardinality(fors_open(open)) >= 1 /\ ~find(scopes, last_stmt.value).found

\* C28: a for statement in the body of another for statement of the same
\* function compiles: its hidden variables #:idx and #:size (and #:iter
\* for an rvalue iterable) are declared in its own scope while the outer
\* loop's are open, and the index it loads and saves is its own.
C28_NestedForCompiles ==
    nested_for =>
        /\ last_stmt.ok
        /\ \A hidden \in {"#:idx", "#:size"} :
              /\ find(scopes, hidden).found
              /\ find(scopes, hidden).depth = open[Len(open)].depth
        /\ ~is_lvalue_expr(last_stmt.expr) =>
              /\ find(scopes, "#:iter").found
              /\ find(scopes, "#:iter").depth = open[Len(open)].depth

\* ---------------------------------------------------------------------
\* SpecElem: a function fn f(c: bool, a: T) with a for statement over a,
\* or over an array literal, whose body assigns through the loop variable
\* or to an element of a
\* ---------------------------------------------------------------------

\* the types of the parameter a: arrays, const or not, of elements const
\* or not, and spans
ElemIterTypes ==
    { with_const(add_array(with_const(t, ec), n), ac) :
          t \in {i32_type, bool_type}, n \in 1..MaxElems, ec \in BOOLEAN, ac \in BOOLEAN }
        \cup { add_span(with_const(i32_type, ec)) : ec \in BOOLEAN }

ElemInit ==
    /\ \E t \in ElemIterTypes :
         /\ iterable = t
         /\ scopes = declare_var(declare_var(new_scope(<< >>), "c", bool_type).scopes,
                                 "a", t).scopes
         /\ last_call = Call("declare", "a", size_of(t), TRUE)
    /\ code = << >>
    /\ status = "compiling"
    /\ last_stmt = NoStmt
    /\ open = <<Open("function")>>
    /\ stmts = 0
    /\ boundaries = { <<0, next_location(scopes)>> }
    /\ loops = {}
    /\ pc = 0
    /\ stack = << >>
    /\ stale = << >>
    /\ for_info = NoFor
    /\ entered = << >>
    /\ ConvIdle /\ CallIdle /\ VmIdle /\ TmplIdle /\ RegIdle /\ RomIdle /\ ArrIdle

\* the targets assigned to in the body: what a loop variable points at,
\* and an element of a
ElemPositions ==
    { <<Node("name", n), Node("deref", "")>> : n \in ForNames }
        \cup { <<Node("name", "a"), Node("subscript", "")>> }

\* push_stmt(node_assignment_stmt) 1296-1304 as the body of the for
\* statement; last_stmt holds the target also when the statement is refused
AssignElement ==
    /\ status = "compiling"
    /\ open # << >>
    /\ open[Len(open)].kind = "for"
    /\ ~open[Len(open)].body_done
    /\ \E position \in ElemPositions : \E e \in { <<Node("literal", l)>> : l \in {"i32", "bool"} } :
       \E lhs_type \in { type_of_expr(scopes, position) } :
       \E rhs \in { push_expr(scopes, "val", e) } :
       \E copy \in { push_copy_typechecked(rhs.type, lhs_type.type) } :
       \E lhs \in { push_expr(scopes, "ptr", position) } :
         IF ~lhs_type.ok \/ ~assignable(lhs_type.type) \/ ~rhs.ok \/ ~copy.ok \/ ~lhs.ok
         THEN /\ status' = "error"
              /\ last_stmt' = Stmt("assignment", position, lhs_type.type, rhs.type, FALSE)
              /\ UNCHANGED <<scopes, code, last_call, progVars, convVars, callVars, vmVars,
                             laterVars>>
         ELSE /\ code' = code \o rhs.ops \o copy.extra \o lhs.ops
                              \o <<Op("save", size_of(lhs.type))>>
              /\ open' = complete(open, FALSE)
              /\ stmts' = stmts + 1
              /\ boundaries' = boundaries \cup { <<code_size(code'), next_location(scopes)>> }
              /\ last_stmt' = Stmt("assignment", position, lhs.type, rhs.type, TRUE)
              /\ UNCHANGED <<scopes, status, last_call, loops, pc, stack, stale, convVars,
                             callVars, vmVars, laterVars>>

ElemNext ==
    \/ CompileNestedFor
    \/ AssignElement
    \/ CompileEndNestedFor

SpecElem == ElemInit /\ [][ElemNext]_vars

\* &iter[idx], iter being the hidden temporary for an rvalue iterable
address_of_element(iter) ==
    (IF is_lvalue_expr(iter) THEN iter ELSE <<Node("name", "#:iter")>>)
        \o <<Node("subscript", ""), Node("addrof", "")>>

\* the loop variable of the innermost for statement open
loop_variable == scopes[Len(scopes)].variables[1]

\* the body of a for statement over the const array a is being compiled
in_const_loop ==
    /\ open # << >>
    /\ open[Len(open)].kind = "for"
    /\ is_array(iterable)
    /\ iterable[1].is_const
    /\ scopes[open[Len(open)].depth].variables[1].name = "#:idx"

\* C29: the loop variable x of `for x in iter` has the type of &iter[idx],
\* const propagation included; over a const array of T it is a pointer to
\* const T, and an assignment through it in the body is refused.
C29_LoopVariableType ==
    /\ (last_stmt.kind = "for" /\ last_stmt.ok) =>
           /\ loop_variable.name = last_stmt.value
           /\ loop_variable.type = type_of_expr(scopes, address_of_element(last_stmt.expr)).type
    /\ (/\ last_stmt.kind = "assignment"
        /\ in_const_loop
        /\ last_stmt.expr = <<Node("name", loop_variable.name), Node("deref", "")>>) =>
           /\ ~last_stmt.ok
           /\ status = "error"

\* ---------------------------------------------------------------------
\* SpecRom: string literals, assert messages and print fragments are
\* interned into the read-only segment
\* ---------------------------------------------------------------------

MaxRom == 4             \* bytes of the read-only segment
MaxLiteral == 2         \* bytes of one literal

RomChars == {"a", "b"}

RECURSIVE StringsOfLength(_)
StringsOfLength(n) ==
    IF n = 0 THEN { << >> }
    ELSE { Append(d, ch) : d \in StringsOfLength(n - 1), ch \in RomChars }

RomData == UNION { StringsOfLength(n) : n \in 0..MaxLiteral }

npos == -1

\* data occurs in the segment at index
occurs_at(segment, data, index) ==
    /\ index >= 0
    /\ index + Len(data) <= Len(segment)
    /\ SubSeq(segment, index + 1, index + Len(data)) = data

\* a find that never answers an index
rom_find_never(segment, data) == npos

\* std::string::find: the first index the data occurs at, npos without one
rom_find(segment, data) ==
    IF \E i \in 0..Len(segment) : occurs_at(segment, data, i)
    THEN CHOOSE i \in 0..Len(segment) :
            /\ occurs_at(segment, data, i)
            /\ \A j \in 0..(i - 1) : ~occurs_at(segment, data, j)
    ELSE npos

\* insert_into_rom 214-222: the segment after the call and the index answered
insert_into_rom(segment, data) ==
    IF rom_find(segment, data) # npos
    THEN [rom |-> segment, index |-> rom_find(segment, data), found |-> TRUE]
    ELSE [rom |-> segment \o data, index |-> Len(segment), found |-> FALSE]

notRom == <<baseVars, tmplVars, regVars, forVars, arrVars>>

\* push_expr(node_literal_string_expr) 523-529, push_stmt(node_assert_stmt)
\* 1341-1348 and push_stmt(node_print_stmt) 1366-1378 intern their data
InsertIntoRom ==
    /\ \E data \in RomData :
       \E inserted \in { insert_into_rom(rom, data) } :
         /\ Len(inserted.rom) <= MaxRom
         /\ rom' = inserted.rom
         /\ interned' = interned \cup { <<inserted.index, data>> }
         /\ last_insert' = [data |-> data, index |-> inserted.index, found |-> inserted.found]
    /\ UNCHANGED notRom

RomNext == InsertIntoRom

SpecRom == ConvInit /\ [][RomNext]_vars

\* C30: the read-only segment only grows by appending. Every index an
\* insert_into_rom answered for data d still has d at it, whatever was
\* inserted since; a call leaves the bytes the segment held where they
\* were; and a call with data the segment holds answers the index of an
\* occurrence of it and leaves the segment as it is.
C30_RomAppendOnly ==
    /\ [](\A pair \in interned : occurs_at(rom, pair[2], pair[1]))
    /\ [][/\ Len(rom') >= Len(rom)
          /\ SubSeq(rom', 1, Len(rom)) = rom
          /\ (\E i \in 0..Len(rom) : occurs_at(rom, last_insert'.data, i)) =>
                /\ rom' = rom
                /\ occurs_at(rom, last_insert'.data, last_insert'.index)]_vars

\* "a", "b" and "ba" were interned one after the other, and "ab" was then
\* found across the first two: every answer still holds
C30_Witness ==
    /\ rom = <<"a", "b", "b", "a">>
    /\ {<<0, <<"a">>>>, <<1, <<"b">>>>, <<0, <<"a", "b">>>>, <<2, <<"b", "a">>>>} \subseteq interned
    /\ last_insert = [data |-> <<"a", "b">>, index |-> 0, found |-> TRUE]

====
